---- MODULE Spec2Model ----
(***************************************************************************)
(* NexoraSwap: the quote endpoint (src/app/api/quote/route.ts), the        *)
(* minimum-amount resolver (src/lib/server/minAmount.ts), the in-memory    *)
(* cache (src/lib/server/cache.ts) and the router selection of SwapCard    *)
(* (src/components/TokenSelect.tsx).                                       *)
(*                                                                         *)
(* Amounts are raw token units (bigint in the source).  USD values are     *)
(* integers counted in micro-dollars (1 USD = 1000000).  A text is a       *)
(* concrete message; KeywordsOf lists which of the literal keywords of the *)
(* source occur in its lower-cased form, so s.includes(k) is k \in the     *)
(* keywords of one of the concatenated parts.                              *)
(***************************************************************************)
EXTENDS Integers, Sequences, FiniteSets, TLC

VARIABLES
  cache,      \* the Map of cache.ts: key -> [v, exp]
  now,        \* Date.now(), in milliseconds
  pc,         \* position of the quote endpoint: "idle" or "responded"
  req,        \* body of the request being answered
  resp,       \* the JSON response
  trace,      \* outbound calls of the request and their outcomes
  rpc,        \* position of computeMinAmountHint
  rBody,      \* its request
  rM,         \* threshold of the provider answering its trial quotes
  rIdx,       \* index of the first succeeding candidate (0-based, -1 none)
  rLo, rHi,   \* binary search bounds
  rLo0, rHi0, \* the bounds the binary phase started from
  rIter,      \* loop counter i of the binary phase
  rTrials,    \* trial quotes issued by the binary phase
  rNet,       \* network calls made by the trial quotes of the call
  rHint,      \* the value computeMinAmountHint returned
  rCached,    \* whether that value came from the cache
  rResp,      \* the JSON response of the min-amount endpoint
  uiRouter,   \* SwapCard: useState router
  uiChain,    \* SwapCard: useChainId()
  uiToChain,  \* SwapCard: useState toChainId
  uiToToken,  \* SwapCard: whether a destination token is selected
  uiAmount,   \* SwapCard: fromAmountRaw (0 when nothing is typed)
  one,        \* SwapCard: useQuote(quoteReqOneInch)
  li,         \* SwapCard: useQuote(quoteReqLiFi)
  runs,       \* concurrent calls of computeMinAmountHint: call -> its state
  seen,       \* what the last getCachedMinAmountHint returned
  op,         \* the last cache operation: its arguments, result, Map before
  fee,        \* SwapCard: the inputs and values of the bridge-fee memos
  quoteCall,  \* the last call of oneInchQuote: its inputs and its result
  srv,        \* one request in the quote endpoint and its outbound calls
  appr,       \* SwapCard: quote, allowance and the transactions sent
  pfx,        \* ONEINCH_PREFIX_CACHE and the last call of oneInchFetch
  hk,         \* one useQuote hook: its state and its effects in flight
  tt          \* trial quotes of the resolver that threw: which, and in which phase

vars == <<cache, now, pc, req, resp, trace, rpc, rBody, rM, rIdx, rLo, rHi,
          rLo0, rHi0, rIter, rTrials, rNet, rHint, rCached, rResp, uiRouter, uiChain, uiToChain,
          uiToToken, uiAmount, one, li, runs, seen, op, fee, quoteCall, srv, appr, pfx, hk, tt>>

postVars == <<pc, req, resp, trace>>
minVars == <<rpc, rBody, rM, rIdx, rLo, rHi, rLo0, rHi0, rIter, rTrials, rNet, rHint, rCached,
             rResp>>
uiVars == <<uiRouter, uiChain, uiToChain, uiToToken, uiAmount, one, li>>
ovVars == <<runs, seen, op>>
feeVars == <<fee, quoteCall>>
auxVars == <<srv, appr, pfx, hk, tt>>

(***************************************************************************)
(* Bounds                                                                  *)
(***************************************************************************)
MaxAmount == 2
MaxToAmount == 2
MaxThreshold == 2
MaxHints == 1
MaxStart == 2
MaxSmallThreshold == 40
Fractions == 16
MaxOvExp == 3
TickMs == 60000
MaxNow == 180000
MaxGen == 2

(***************************************************************************)
(* Program constants                                                       *)
(***************************************************************************)
USD == 1000000
DISAMBIGUATE_USD == 50
PROBE1_USD == 10
PROBE2_USD == 30
MULT_A == 200
MULT_B == 2000
EXP_STEPS == 8
EXP_FACTOR == 10
MAX_BIN == 6
MIN_TTL_MS == 120000

RECURSIVE Pow(_, _)
Pow(b, e) == IF e = 0 THEN 1 ELSE b * Pow(b, e - 1)

\* Number.prototype.toFixed: round num/den to the nearest integer, half up
RoundDiv(num, den) == (num + den \div 2) \div den

Max(a, b) == IF a > b THEN a ELSE b

(***************************************************************************)
(* Requests                                                                *)
(***************************************************************************)
Routers == {"auto", "oneinch-direct", "lifi-smart", "gaszip"}
Chains == {1, 137}

\* source tokens: decimals and priceUSD (micro-dollars per whole token, 0 = unknown)
FromTokens ==
  { [address |-> "0xAAaa", decimals |-> 0, priceUSD |-> 0],
    [address |-> "0xAAaa", decimals |-> 0, priceUSD |-> USD \div 100],
    [address |-> "0xAAaa", decimals |-> 0, priceUSD |-> 2 * USD],
    [address |-> "0xAAaa", decimals |-> 0, priceUSD |-> 24999980],
    [address |-> "0xAAaa", decimals |-> 1, priceUSD |-> 250 * USD] }

ToTokenAddress == "0xbbBB"

Requests ==
  [ router : Routers,
    fromChainId : {1},
    toChainId : Chains,
    fromToken : FromTokens,
    toToken : {ToTokenAddress},
    fromAmount : 1..MaxAmount ]

NoRequest ==
  [ router |-> "none", fromChainId |-> 0, toChainId |-> 0,
    fromToken |-> [address |-> "", decimals |-> 0, priceUSD |-> 0],
    toToken |-> "", fromAmount |-> 0 ]

(***************************************************************************)
(* Texts: messages of the providers and of the source                      *)
(***************************************************************************)
T_EMPTY == ""
T_NO_QUOTES == "No available quotes for the requested transfer"
T_UNABLE == "Unable to find a quote for the requested transfer"
T_LIQUIDITY == "insufficient liquidity"
T_NOT_ENOUGH == "return amount is not enough"
T_MIN_NO_ROUTE == "No route found: below the minimum amount"
T_TAX == "No route: token has fee on transfer"
T_FEE == "Token charges a transfer fee"
T_INTERNAL == "Internal Server Error"
T_GW_TIMEOUT == "upstream request timeout"
T_HTML == "<html>Sign in</html>"
T_TIMED_OUT == "Quote request timed out"
T_TIMEOUT_JSON == "{\"reason\":\"TIMEOUT\"}"
T_CROSS == "1inch direct route only supports same-chain swaps. Switch to LiFi for cross-chain."
T_FETCH_FAILED == "fetch failed"
T_H_NO_ROUTE == "No route found for this pair."
T_H_TOO_LOW == "Amount too low for this pair."
T_H_LIQUIDITY == "Liquidity not found for this pair."
T_H_SLOW == "Network is slow. Please try again."
T_NOT_IMPL == "Router not implemented in this starter."
T_LIFI_NON_JSON == "LI.FI returned a non-JSON response."

\* the literal keywords of route.ts that occur in the lower-cased text
KeywordsOf(t) ==
  CASE t = T_NO_QUOTES -> {"no available quotes"}
    [] t = T_UNABLE -> {}
    [] t = T_LIQUIDITY -> {"liquidity"}
    [] t = T_NOT_ENOUGH -> {"return amount is not enough"}
    [] t = T_MIN_NO_ROUTE -> {"no route", "minimum amount", "below the minimum"}
    [] t = T_TAX -> {"no route", "fee on transfer"}
    [] t = T_FEE -> {"transfer fee"}
    [] t = T_GW_TIMEOUT -> {"timeout"}
    [] t = T_TIMED_OUT -> {"timed out"}
    [] t = T_TIMEOUT_JSON -> {"timeout"}
    [] t = T_H_NO_ROUTE -> {"no route"}
    [] t = T_H_TOO_LOW -> {"amount too low", "too low"}
    [] t = T_H_LIQUIDITY -> {"liquidity"}
    [] OTHER -> {}

\* `${raw} ${human}`.toLowerCase().includes(k), s the set of concatenated parts
includes(s, k) == \E t \in s : k \in KeywordsOf(t)

ProviderErrorTexts ==
  {T_NO_QUOTES, T_UNABLE, T_LIQUIDITY, T_NOT_ENOUGH, T_MIN_NO_ROUTE, T_TAX, T_FEE,
   T_INTERNAL, T_GW_TIMEOUT}

Reasons == {"MIN_AMOUNT", "NO_LIQUIDITY", "TIMEOUT", "OTHER"}

(***************************************************************************)
(* Ephemeral cache (cache.ts) and the hint key (minAmount.ts)              *)
(***************************************************************************)
\* null, where a MinAmountHint is expected
NoHint == [fromAmount |-> 0]

\* String.prototype.toLowerCase on the token addresses of the model
toLowerCase(a) ==
  CASE a = "0xAAaa" -> "0xaaaa"
    [] a = "0xbbBB" -> "0xbbbb"
    [] OTHER -> a

minCacheKey(body) ==
  <<body.router, body.fromChainId, body.toChainId,
    toLowerCase(body.fromToken.address), toLowerCase(body.toToken)>>

\* value returned by cacheGet(key) at time t
cacheGet(c, key, t) ==
  IF key \notin DOMAIN c THEN NoHint
  ELSE IF t > c[key].exp THEN NoHint
  ELSE c[key].v

\* cacheGet without the cache.delete of an expired entry
cacheAfterGet_keep(c, key, t) == c

\* the Map after cacheGet(key) at time t: an expired hit is deleted
cacheAfterGet(c, key, t) ==
  IF key \in DOMAIN c /\ t > c[key].exp
  THEN [k \in DOMAIN c \ {key} |-> c[k]]
  ELSE c

\* cacheSet keeping the expiry of an entry the key already holds
cacheSet_keepExpiry(c, key, value, ttlMs, t) ==
  [k \in DOMAIN c \cup {key} |->
     IF k = key
     THEN [v |-> value, exp |-> IF key \in DOMAIN c THEN c[key].exp ELSE t + ttlMs]
     ELSE c[k]]

cacheSet(c, key, value, ttlMs, t) ==
  [k \in DOMAIN c \cup {key} |->
     IF k = key THEN [v |-> value, exp |-> t + ttlMs] ELSE c[k]]

getCachedMinAmountHint(c, body, t) == cacheGet(c, minCacheKey(body), t)

(***************************************************************************)
(* USD helpers (route.ts 142-155, 217-227; minAmount.ts 67-76)             *)
(***************************************************************************)
\* amountUsd: -1 stands for undefined, otherwise micro-dollars after toFixed
amountUsd(amount, decimals, priceUSD) ==
  IF priceUSD <= 0 THEN -1
  ELSE IF amount <= 0 THEN -1
  ELSE LET num == amount * priceUSD
           den == Pow(10, decimals)
       IN IF num < den * (USD \div 100)
          THEN RoundDiv(num, den)
          ELSE 100 * RoundDiv(num, den * 100)

\* usdToUnits: 0 stands for null and for 0n, which filter(Boolean) both drop
usdToUnits(usd, priceUSD, decimals) ==
  IF usd <= 0 THEN 0
  ELSE IF priceUSD <= 0 THEN 0
  ELSE RoundDiv(usd * USD * Pow(10, decimals), priceUSD)

\* variant: the smaller of each pair instead of the larger
buildProbeAmounts_smaller(body, baseAmt) ==
  LET multA == baseAmt * MULT_A
      multB == baseAmt * MULT_B
      price == body.fromToken.priceUSD
      u10 == usdToUnits(PROBE1_USD, price, body.fromToken.decimals)
      u30 == usdToUnits(PROBE2_USD, price, body.fromToken.decimals)
      probe1 == IF u10 # 0 /\ multA # 0 THEN (IF multA < u10 THEN multA ELSE u10)
                ELSE IF u10 # 0 THEN u10 ELSE multA
      probe2 == IF u30 # 0 /\ multB # 0 THEN (IF multB < u30 THEN multB ELSE u30)
                ELSE IF u30 # 0 THEN u30 ELSE multB
      out1 == IF probe1 > baseAmt THEN <<probe1>> ELSE <<>>
      out2 == IF probe2 > baseAmt THEN Append(out1, probe2) ELSE out1
  IN IF Len(out2) = 2 /\ out2[1] = out2[2] THEN <<out2[1]>> ELSE out2

buildProbeAmounts(body, baseAmt) ==
  LET multA == baseAmt * MULT_A
      multB == baseAmt * MULT_B
      price == body.fromToken.priceUSD
      u10 == usdToUnits(PROBE1_USD, price, body.fromToken.decimals)
      u30 == usdToUnits(PROBE2_USD, price, body.fromToken.decimals)
      probe1 == IF u10 # 0 /\ multA # 0 THEN Max(multA, u10)
                ELSE IF u10 # 0 THEN u10 ELSE multA
      probe2 == IF u30 # 0 /\ multB # 0 THEN Max(multB, u30)
                ELSE IF u30 # 0 THEN u30 ELSE multB
      out1 == IF probe1 > baseAmt THEN <<probe1>> ELSE <<>>
      out2 == IF probe2 > baseAmt THEN Append(out1, probe2) ELSE out1
  IN IF Len(out2) = 2 /\ out2[1] = out2[2] THEN <<out2[1]>> ELSE out2

(***************************************************************************)
(* Error classification (route.ts 131-140, 287-379)                        *)
(***************************************************************************)
isUnfixableForBiggerAmount(s) ==
  \/ includes(s, "buy or sell tax")
  \/ includes(s, "tax above acceptable threshold")
  \/ includes(s, "fee on transfer")
  \/ includes(s, "transfer fee")

isMinAmountLike(s) ==
  \/ includes(s, "amount too low")
  \/ includes(s, "too low")
  \/ includes(s, "min amount")
  \/ includes(s, "minimum amount")
  \/ includes(s, "below the minimum")
  \/ includes(s, "return amount is not enough")
  \/ includes(s, "insufficient input")

isNoQuoteLike(s) ==
  \/ includes(s, "no available quotes")
  \/ includes(s, "no route")
  \/ includes(s, "no quote")
  \/ includes(s, "no_quote")
  \/ includes(s, "no routes found")

\* baseReason testing the no-quote keywords before the min-amount keywords
baseReason_noQuoteFirst(raw, human) ==
  LET s == raw \cup {human}
  IN IF includes(s, "timed out") \/ includes(s, "timeout") \/ includes(s, "time out")
       THEN "TIMEOUT"
     ELSE IF isUnfixableForBiggerAmount(s) THEN "NO_LIQUIDITY"
     ELSE IF isNoQuoteLike(s) \/ includes(s, "liquidity") THEN "NO_LIQUIDITY"
     ELSE IF isMinAmountLike(s) THEN "MIN_AMOUNT"
     ELSE "OTHER"

baseReason(raw, human) ==
  LET s == raw \cup {human}
  IN IF includes(s, "timed out") \/ includes(s, "timeout") \/ includes(s, "time out")
       THEN "TIMEOUT"
     ELSE IF isMinAmountLike(s) THEN "MIN_AMOUNT"
     ELSE IF isUnfixableForBiggerAmount(s) THEN "NO_LIQUIDITY"
     ELSE IF isNoQuoteLike(s) \/ includes(s, "liquidity") THEN "NO_LIQUIDITY"
     ELSE "OTHER"

normalizeQuoteError(reason, fallback) ==
  IF reason = "MIN_AMOUNT" THEN T_H_TOO_LOW
  ELSE IF reason = "NO_LIQUIDITY" THEN T_H_LIQUIDITY
  ELSE IF reason = "TIMEOUT" THEN T_H_SLOW
  ELSE fallback

\* payload: [json, text, code]; msg is the payload's message, or the body text
lifiHumanError(status, payload) ==
  LET msg == {payload.text}
      hasNoQuote ==
        \/ payload.json /\ payload.code = 1002
        \/ includes(msg, "no available quotes")
        \/ includes(msg, "no quote")
        \/ includes(msg, "no route")
  IN IF hasNoQuote THEN T_H_NO_ROUTE
     ELSE IF includes(msg, "amount too low") \/ includes(msg, "too low")
             \/ includes(msg, "min amount") THEN T_H_TOO_LOW
     ELSE payload.text

oneInchHumanError(status, payload) == payload.text

\* a rejection e: [status, tagged, message]; fetchWithTimeout tags a timeout
\* with status 504 and payload {reason: 'TIMEOUT'}
isTimeoutError(e) ==
  \/ e.status = 504
  \/ e.tagged
  \/ includes({e.message}, "timed out")

(***************************************************************************)
(* Disambiguation probe (route.ts 180-199)                                 *)
(***************************************************************************)
\* outcome of one okFn(p): "ok" fulfilled true, "no" fulfilled false,
\* "timeout" rejected by fetchWithTimeout, "neterr" rejected by fetch
ProbeOutcomes == {"ok", "no", "timeout", "neterr"}

probeError(o) ==
  IF o = "timeout" THEN [status |-> 504, tagged |-> TRUE, message |-> T_TIMED_OUT]
  ELSE [status |-> 0, tagged |-> FALSE, message |-> T_FETCH_FAILED]

\* disambiguateNoQuote without the timeout branch
disambiguateNoQuote_noTimeout(probes, settled) ==
  IF Len(probes) = 0 THEN "NO_LIQUIDITY"
  ELSE IF \E i \in 1..Len(probes) : settled[i] = "ok" THEN "MIN_AMOUNT"
  ELSE "NO_LIQUIDITY"

disambiguateNoQuote(probes, settled) ==
  IF Len(probes) = 0 THEN "NO_LIQUIDITY"
  ELSE LET anyOk == \E i \in 1..Len(probes) : settled[i] = "ok"
           anyTimeout == \E i \in 1..Len(probes) :
                            /\ settled[i] \in {"timeout", "neterr"}
                            /\ isTimeoutError(probeError(settled[i]))
       IN IF anyOk THEN "MIN_AMOUNT"
          ELSE IF anyTimeout THEN "TIMEOUT"
          ELSE "NO_LIQUIDITY"

(***************************************************************************)
(* Direct-Swap adapter (route.ts 456-631)                                  *)
(***************************************************************************)
\* outcomes of the /approve/spender lookup made for a base before its /swap
\* call (route.ts 522-529): "ok" is a 2xx answer with an address, "status" an
\* error status, "malformed" a body that is no JSON, "noaddress" JSON without
\* an address, "neterr" a rejected fetch, "timeout" the 2500 ms deadline
SpenderLookups == {"ok", "status", "malformed", "noaddress", "neterr", "timeout"}

\* the lookup with its catch removed: a rejected fetch and a timeout escape
spenderLookup_uncaught(lookup) ==
  [address |-> lookup = "ok", thrown |-> lookup \in {"neterr", "timeout"}]

\* the try block and its empty catch: whether approvalAddress is set, and
\* whether anything is thrown out of it
spenderLookup(lookup) ==
  [address |-> lookup = "ok", thrown |-> FALSE]

\* response of one base to the /swap call, with the outcome of the
\* best-effort /approve/spender lookup made before it
OneInchOk ==
  [ kind : {"ok"}, status : {200}, json : {TRUE}, text : {T_EMPTY},
    dstAmount : 0..MaxToAmount, lookup : {"ok", "timeout"} ]

OneInchErr ==
  [ kind : {"err"}, status : {400}, json : {TRUE}, text : ProviderErrorTexts,
    dstAmount : {0}, lookup : {"status"} ]
  \cup
  [ kind : {"err"}, status : {500}, json : {FALSE}, text : {T_INTERNAL},
    dstAmount : {0}, lookup : {"status"} ]

OneInchHtml ==
  [ kind : {"html"}, status : {200}, json : {FALSE}, text : {T_HTML},
    dstAmount : {0}, lookup : {"status"} ]

OneInchThrow ==
  [ kind : {"timeout", "neterr"}, status : {0}, json : {FALSE}, text : {T_EMPTY},
    dstAmount : {0}, lookup : {"status"} ]

OneInchBaseResponses == OneInchOk \cup OneInchErr \cup OneInchHtml \cup OneInchThrow

\* getOneInchBaseCandidates returns one base (public host) or two (explicit or
\* business host, then the public host): one response per base tried
OneInchRuns ==
  { <<r>> : r \in OneInchBaseResponses }
  \cup
  { <<f, r>> :
      f \in { x \in OneInchErr \cup OneInchHtml :
                x.text \in {T_NO_QUOTES, T_INTERNAL, T_HTML} },
      r \in { x \in OneInchBaseResponses :
                \/ x.kind = "ok" /\ x.dstAmount = 1 /\ x.lookup = "ok"
                \/ x.kind = "timeout"
                \/ x.kind = "err" /\ x.text \in {T_NOT_ENOUGH, T_INTERNAL} } }

NoBestErr == [none |-> TRUE, status |-> 0, json |-> FALSE, text |-> T_EMPTY]

scoreOneInchErr(e) ==
  (IF e.json THEN 10 ELSE 0)
  + (IF e.status = 400 THEN 5 ELSE 0)
  + (IF e.status = 401 \/ e.status = 403 THEN 3 ELSE 0)
  + (IF e.status = 429 THEN 2 ELSE 0)
  + (IF e.status >= 500 THEN 1 ELSE 0)

pickBestOneInchErr(best, cur) ==
  IF best.none \/ scoreOneInchErr(cur) >= scoreOneInchErr(best) THEN cur ELSE best

\* the timeout rejection of fetchWithTimeout (route.ts 43-45)
TimeoutError ==
  [ status |-> 504, tagged |-> TRUE, message |-> T_TIMED_OUT, raw |-> {T_TIMEOUT_JSON},
    json |-> TRUE ]

\* an Error that is no QuoteApiError: no status, no payload, no text
PlainError(message) ==
  [ status |-> 0, tagged |-> FALSE, message |-> message, raw |-> {}, json |-> FALSE ]

NoError ==
  [ status |-> 0, tagged |-> FALSE, message |-> T_EMPTY, raw |-> {}, json |-> FALSE ]

OneInchResult(ok, toAmount, approval, e, last, network) ==
  [ ok |-> ok, toAmount |-> toAmount, approvalAddress |-> approval, e |-> e,
    last |-> last, network |-> network ]

RECURSIVE oneInchLoop(_, _, _)
oneInchLoop(resps, i, bestErr) ==
  IF i > Len(resps)
  THEN OneInchResult(FALSE, 0, FALSE,
         [ status |-> bestErr.status, tagged |-> FALSE,
           message |-> oneInchHumanError(bestErr.status, bestErr),
           raw |-> {bestErr.text}, json |-> bestErr.json ],
         "err", TRUE)
  ELSE LET r == resps[i]
           sp == spenderLookup(r.lookup)
       IN
    CASE sp.thrown ->
           IF r.lookup = "timeout"
           THEN OneInchResult(FALSE, 0, FALSE, TimeoutError, "timeout", TRUE)
           ELSE OneInchResult(FALSE, 0, FALSE, PlainError(T_FETCH_FAILED), "neterr", TRUE)
      [] r.kind = "timeout" ->
           OneInchResult(FALSE, 0, FALSE, TimeoutError, "timeout", TRUE)
      [] r.kind = "neterr" ->
           OneInchResult(FALSE, 0, FALSE, PlainError(T_FETCH_FAILED), "neterr", TRUE)
      [] r.kind = "ok" ->
           OneInchResult(TRUE, r.dstAmount, sp.address, NoError, "ok", TRUE)
      [] OTHER ->
           oneInchLoop(resps, i + 1,
             pickBestOneInchErr(bestErr,
               [none |-> FALSE, status |-> r.status, json |-> r.json, text |-> r.text]))

\* oneInchQuote without the same-chain check of route.ts 458-460
oneInchQuote_noChainCheck(body, resps) == oneInchLoop(resps, 1, NoBestErr)

oneInchQuote(body, resps) ==
  IF body.fromChainId # body.toChainId
  THEN OneInchResult(FALSE, 0, FALSE, PlainError(T_CROSS), "fastfail", FALSE)
  ELSE oneInchLoop(resps, 1, NoBestErr)

(***************************************************************************)
(* Bridge-Swap call of POST (route.ts 737-739)                             *)
(***************************************************************************)
LifiOk ==
  [ kind : {"ok"}, status : {200}, json : {TRUE}, text : {T_EMPTY}, code : {0},
    toAmount : 0..MaxToAmount, approval : BOOLEAN ]

LifiErr ==
  [ kind : {"err"}, status : {400}, json : {TRUE}, text : ProviderErrorTexts,
    code : {0}, toAmount : {0}, approval : {FALSE} ]
  \cup
  [ kind : {"err"}, status : {404}, json : {TRUE}, text : {T_UNABLE},
    code : {1002}, toAmount : {0}, approval : {FALSE} ]
  \cup
  [ kind : {"err"}, status : {500}, json : {FALSE}, text : {T_INTERNAL},
    code : {0}, toAmount : {0}, approval : {FALSE} ]

\* "nonjson": 200 without JSON; "badtx": transactionRequest.to is no address;
\* "timeout": the 8000 ms deadline of fetchWithTimeout; "neterr": fetch rejects
LifiOther ==
  [ kind : {"nonjson", "badtx", "timeout", "neterr"}, status : {200},
    json : {FALSE}, text : {T_EMPTY}, code : {0}, toAmount : {0},
    approval : {FALSE} ]

LifiResults == LifiOk \cup LifiErr \cup LifiOther

(***************************************************************************)
(* Minimum-amount resolver (minAmount.ts 88-210)                           *)
(***************************************************************************)
\* the provider of the trial quotes: it quotes a positive output for every
\* amount >= M and rejects every smaller amount; M = 0 rejects every amount
Accepts(M, x) == M > 0 /\ x >= M

isOneInch(router) == router = "oneinch-direct"

lifiQuoteOk(body, M, fromAmount) == Accepts(M, fromAmount)

\* oneInchQuoteOk without its first line
oneInchTrial_noChainCheck(body, M, fromAmount) ==
  [ok |-> Accepts(M, fromAmount), network |-> TRUE]

\* one call of oneInchQuoteOk: what it returns, and whether it fetched
oneInchTrial(body, M, fromAmount) ==
  IF body.fromChainId # body.toChainId
  THEN [ok |-> FALSE, network |-> FALSE]
  ELSE [ok |-> Accepts(M, fromAmount), network |-> TRUE]

oneInchQuoteOk(body, M, fromAmount) == oneInchTrial(body, M, fromAmount).ok

\* whether the trial quote for amount x goes to the network
trialNetwork(body, M, x) ==
  IF isOneInch(body.router) THEN oneInchTrial(body, M, x).network ELSE TRUE


trialOk(body, M, x) ==
  IF isOneInch(body.router) THEN oneInchQuoteOk(body, M, x) ELSE lifiQuoteOk(body, M, x)

\* candidates with one step fewer
candidates_short(start) == [i \in 0..(EXP_STEPS - 2) |-> start * Pow(EXP_FACTOR, i)]

\* candidates[0..7]: start, start*10, ...
candidates(start) == [i \in 0..(EXP_STEPS - 1) |-> start * Pow(EXP_FACTOR, i)]

\* results.findIndex(Boolean): -1 when no candidate succeeds
findIndex(body, M) ==
  LET c == candidates(body.fromAmount)
      hits == {i \in DOMAIN c : trialOk(body, M, c[i])}
  IN IF hits = {} THEN -1 ELSE CHOOSE i \in hits : \A j \in hits : i <= j

\* network calls of the exponential phase: one per candidate that fetches,
\* none when the starting amount is rejected before the candidates are built
exponentialNetwork(body, M) ==
  LET c == candidates(body.fromAmount)
  IN IF body.fromAmount <= 0 THEN 0
     ELSE Cardinality({i \in DOMAIN c : trialNetwork(body, M, c[i])})

initialLo(start, idx) == IF idx = 0 THEN start ELSE candidates(start)[idx - 1]
initialHi(start, idx) == candidates(start)[idx]

\* a linear scan in place of the bisection
midpoint_linear(lo, hi) == lo + 1

\* the amount the loop body would try, and whether it breaks instead
midpoint(lo, hi) ==
  LET mid == (lo + hi) \div 2
  IN IF mid <= lo THEN lo + 1 ELSE mid

\* one pass of the loop body that did not break: the new (lo, hi)
binaryStep(body, M, lo, hi) ==
  LET m == midpoint(lo, hi)
  IN IF trialOk(body, M, m) THEN <<lo, m>> ELSE <<m, hi>>

RECURSIVE binarySearch(_, _, _, _, _)
binarySearch(body, M, lo, hi, i) ==
  IF i >= MAX_BIN THEN hi
  ELSE IF midpoint(lo, hi) >= hi THEN hi
  ELSE LET n == binaryStep(body, M, lo, hi)
       IN binarySearch(body, M, n[1], n[2], i + 1)

\* the hint computed when the cache holds none: NoHint when unresolved
searchMinAmount(body, M) ==
  LET start == body.fromAmount
      idx == findIndex(body, M)
  IN IF start <= 0 THEN NoHint
     ELSE IF idx = -1 THEN NoHint
     ELSE [fromAmount |->
             binarySearch(body, M, initialLo(start, idx), initialHi(start, idx), 0)]

\* computeMinAmountHint as a whole: <<returned hint, cache afterwards>>
computeMinAmountHint(c, body, M, t) ==
  LET key == minCacheKey(body)
      cached == cacheGet(c, key, t)
      c1 == cacheAfterGet(c, key, t)
      hint == searchMinAmount(body, M)
  IN IF cached # NoHint THEN <<cached, c1>>
     ELSE IF hint = NoHint THEN <<NoHint, c1>>
     ELSE <<hint, cacheSet(c1, key, hint, MIN_TTL_MS, t)>>

(***************************************************************************)
(* Quote endpoint POST (route.ts 633-819)                                  *)
(***************************************************************************)
NoResponse ==
  [ ok |-> FALSE, adapter |-> "none", toAmount |-> 0, approvalAddress |-> FALSE,
    hasReason |-> FALSE, reason |-> "none", retryable |-> FALSE,
    minAmount |-> NoHint, status |-> 0, error |-> T_EMPTY ]

NoTrace ==
  [ oneinch |-> "none", oneinchNet |-> FALSE, oneinchStatus |-> 0,
    oneinchJson |-> FALSE, lifi |-> "none", lifiJson |-> FALSE,
    classified |-> FALSE, tagged |-> FALSE, status |-> 0, raw |-> {},
    human |-> T_EMPTY, cachedMin |-> NoHint,
    probeAdapter |-> "none", probes |-> <<>>, settled |-> <<>> ]

successResponse(adapter, toAmount, approval) ==
  [ NoResponse EXCEPT !.ok = TRUE, !.adapter = adapter, !.toAmount = toAmount,
                      !.approvalAddress = approval, !.status = 200 ]

\* a failure without reason and retryable fields
bareError(adapter, status, message) ==
  [ NoResponse EXCEPT !.adapter = adapter, !.status = status, !.error = message ]

\* shouldDisambiguate requiring a known price
shouldDisambiguate_priceRequired(body) ==
  LET usd == amountUsd(body.fromAmount, body.fromToken.decimals, body.fromToken.priceUSD)
  IN usd # -1 /\ usd < DISAMBIGUATE_USD * USD

shouldDisambiguate(body) ==
  LET usd == amountUsd(body.fromAmount, body.fromToken.decimals, body.fromToken.priceUSD)
  IN usd = -1 \/ usd < DISAMBIGUATE_USD * USD

\* reasonBeforeProbe overriding also at the cached minimum itself
reasonBeforeProbe_atMost(body, cachedMin, raw, human) ==
  IF cachedMin # NoHint /\ body.fromAmount <= cachedMin.fromAmount
  THEN "MIN_AMOUNT"
  ELSE baseReason(raw, human)

\* the reason before the probes: baseReason, then the cached minimum
reasonBeforeProbe(body, cachedMin, raw, human) ==
  IF cachedMin # NoHint /\ body.fromAmount < cachedMin.fromAmount
  THEN "MIN_AMOUNT"
  ELSE baseReason(raw, human)

probeIssued(body, cachedMin, raw, human) ==
  LET s == raw \cup {human}
  IN /\ reasonBeforeProbe(body, cachedMin, raw, human) = "NO_LIQUIDITY"
     /\ isNoQuoteLike(s)
     /\ ~isUnfixableForBiggerAmount(s)
     /\ shouldDisambiguate(body)

\* failureResponse computing retryable from the reason before the probes
failureResponse_retryEarly(body, cachedMin, adapter, status, raw, human, settled) ==
  LET s == raw \cup {human}
      reason0 == reasonBeforeProbe(body, cachedMin, raw, human)
      dis == disambiguateNoQuote(buildProbeAmounts(body, body.fromAmount), settled)
      reason == IF probeIssued(body, cachedMin, raw, human)
                   /\ (dis = "MIN_AMOUNT" \/ dis = "TIMEOUT")
                THEN dis ELSE reason0
      minAmount == IF reason = "MIN_AMOUNT" THEN cachedMin ELSE NoHint
      retryable == reason0 = "NO_LIQUIDITY" /\ isNoQuoteLike(s)
                   /\ ~isUnfixableForBiggerAmount(s)
  IN [ NoResponse EXCEPT !.adapter = adapter, !.hasReason = TRUE,
         !.reason = reason, !.retryable = retryable, !.minAmount = minAmount,
         !.status = IF status >= 500 THEN 502 ELSE 400,
         !.error = normalizeQuoteError(reason, human) ]

\* the catch blocks of the two branches (route.ts 668-707 and 741-779):
\* status, raw and human describe the failure, settled the probe outcomes
failureResponse(body, cachedMin, adapter, status, raw, human, settled) ==
  LET s == raw \cup {human}
      reason0 == reasonBeforeProbe(body, cachedMin, raw, human)
      dis == disambiguateNoQuote(buildProbeAmounts(body, body.fromAmount), settled)
      reason == IF probeIssued(body, cachedMin, raw, human)
                   /\ (dis = "MIN_AMOUNT" \/ dis = "TIMEOUT")
                THEN dis ELSE reason0
      minAmount == IF reason = "MIN_AMOUNT" THEN cachedMin ELSE NoHint
      retryable == reason = "NO_LIQUIDITY" /\ isNoQuoteLike(s)
                   /\ ~isUnfixableForBiggerAmount(s)
  IN [ NoResponse EXCEPT !.adapter = adapter, !.hasReason = TRUE,
         !.reason = reason, !.retryable = retryable, !.minAmount = minAmount,
         !.status = IF status >= 500 THEN 502 ELSE 400,
         !.error = normalizeQuoteError(reason, human) ]

\* every way the failure handling can end, over the outcomes of the probes
failureOutcomes(body, cachedMin, adapter, status, tagged, raw, human, tr) ==
  LET issued == probeIssued(body, cachedMin, raw, human)
      probes == IF issued THEN buildProbeAmounts(body, body.fromAmount) ELSE <<>>
  IN { [ resp |-> failureResponse(body, cachedMin, adapter, status, raw, human, settled),
         trace |-> [ tr EXCEPT !.classified = TRUE, !.tagged = tagged,
                       !.status = status, !.raw = raw, !.human = human,
                       !.cachedMin = cachedMin,
                       !.probeAdapter = IF issued THEN adapter ELSE "none",
                       !.probes = probes, !.settled = settled ],
         readCache |-> TRUE ] :
       settled \in [1..Len(probes) -> ProbeOutcomes] }

\* the LI.FI part of POST (route.ts 712-818)
lifiOutcomes(body, cachedMin, tr0) ==
  UNION { LET tr == [tr0 EXCEPT !.lifi = r.kind, !.lifiJson = r.json] IN
      CASE r.kind = "ok" ->
             { [ resp |-> successResponse("lifi", r.toAmount, r.approval),
                 trace |-> tr, readCache |-> FALSE ] }
        [] r.kind = "err" ->
             failureOutcomes(body, cachedMin, "lifi", r.status, FALSE, {r.text},
                             lifiHumanError(r.status, r), tr)
        [] r.kind = "nonjson" ->
             { [ resp |-> bareError("lifi", 502, T_LIFI_NON_JSON),
                 trace |-> tr, readCache |-> FALSE ] }
        [] r.kind = "badtx" ->
             { [ resp |-> bareError("lifi", 502, "LI.FI returned an invalid transaction target address."),
                 trace |-> tr, readCache |-> FALSE ] }
        [] r.kind = "timeout" ->
             { [ resp |-> bareError("lifi", 500, TimeoutError.message),
                 trace |-> tr, readCache |-> FALSE ] }
        [] OTHER ->
             { [ resp |-> bareError("lifi", 500, T_FETCH_FAILED),
                 trace |-> tr, readCache |-> FALSE ] }
    : r \in LifiResults }

\* what follows the auto and oneinch-direct branches (route.ts 712-714)
afterOneInch(body, cachedMin, tr) ==
  IF body.router = "lifi-smart" \/ body.router = "auto"
  THEN lifiOutcomes(body, cachedMin, tr)
  ELSE { [ resp |-> bareError("none", 400, T_NOT_IMPL), trace |-> tr,
           readCache |-> FALSE ] }

\* every <<response, trace>> POST can produce for body, cachedMin being what
\* getCachedMinAmountHint(body) returns
postOutcomes(body, cachedMin) ==
  LET same == body.fromChainId = body.toChainId
      results == { oneInchQuote([body EXCEPT !.router = "oneinch-direct"], run) :
                     run \in OneInchRuns }
      trOf(res) == [NoTrace EXCEPT !.oneinch = res.last, !.oneinchNet = res.network,
                                   !.oneinchStatus = res.e.status,
                                   !.oneinchJson = res.e.json]
  IN IF body.router = "auto" /\ same
     THEN UNION { IF res.ok
                  THEN { [ resp |-> successResponse("oneinch", res.toAmount, res.approvalAddress),
                           trace |-> trOf(res), readCache |-> FALSE ] }
                  ELSE afterOneInch(body, cachedMin, trOf(res))
                : res \in results }
     ELSE IF body.router = "oneinch-direct"
     THEN UNION { IF res.ok
                  THEN { [ resp |-> successResponse("oneinch", res.toAmount, res.approvalAddress),
                           trace |-> trOf(res), readCache |-> FALSE ] }
                  ELSE failureOutcomes(body, cachedMin, "oneinch",
                         IF res.e.status = 0 THEN 400 ELSE res.e.status,
                         res.e.tagged, res.e.raw, res.e.message, trOf(res))
                : res \in results }
     ELSE afterOneInch(body, cachedMin, NoTrace)

POST ==
  /\ pc = "idle"
  /\ \E body \in Requests :
       \E out \in postOutcomes(body, getCachedMinAmountHint(cache, body, now)) :
         /\ req' = body
         /\ resp' = out.resp
         /\ trace' = out.trace
         /\ cache' = IF out.readCache
                     THEN cacheAfterGet(cache, minCacheKey(body), now)
                     ELSE cache
  /\ pc' = "responded"
  /\ UNCHANGED <<auxVars, feeVars, now, minVars, uiVars, ovVars>>

\* NextResponse.json(...) is returned and the handler ends
Reply ==
  /\ pc = "responded"
  /\ pc' = "idle"
  /\ req' = NoRequest
  /\ resp' = NoResponse
  /\ trace' = NoTrace
  /\ UNCHANGED <<auxVars, feeVars, cache, now, minVars, uiVars, ovVars>>

\* no response of the min-amount endpoint yet
NoMinResponse == [status |-> 0, error |-> T_EMPTY, minAmount |-> NoHint]

\* what the min-amount endpoint answers with the value computeMinAmountHint
\* returned (page.tsx 250-252)
minAmountResponse(hint) ==
  IF hint = NoHint
  THEN [status |-> 400, error |-> T_H_LIQUIDITY, minAmount |-> NoHint]
  ELSE [status |-> 200, error |-> T_EMPTY, minAmount |-> hint]

\* the min-amount endpoint (page.tsx 235-256) running computeMinAmountHint
MinAmountPOST ==
  /\ pc = "idle"
  /\ Cardinality(DOMAIN cache) < MaxHints
  /\ \E body \in Requests, M \in 0..MaxThreshold :
       cache' = computeMinAmountHint(cache, body, M, now)[2]
  /\ UNCHANGED <<auxVars, feeVars, now, postVars, ovVars, minVars, uiVars>>

\* state of one useQuote hook: the request of its running effect, and what
\* the hook returns (data, reason, loading)
NoHook ==
  [ req |-> NoRequest, loading |-> FALSE, retried |-> FALSE, hasData |-> FALSE,
    toAmount |-> 0, forAmount |-> 0, failed |-> FALSE, reason |-> "none" ]

\* a call of computeMinAmountHint that is not running
NoRun ==
  [ pc |-> "idle", body |-> NoRequest, hint |-> NoHint, cached |-> FALSE,
    trials |-> FALSE ]

\* no cache operation yet
\* the quote endpoint before a request arrives
NoSrv ==
  [ pc |-> "idle", router |-> "none", cancelled |-> FALSE, provider |-> "none",
    probes |-> <<>> ]

NoSent == [handler |-> "none", kind |-> "none", amount |-> 0, error |-> T_EMPTY]

\* SwapCard before anything is selected
NoAppr ==
  [ pc |-> "idle", isConnected |-> FALSE, fromToken |-> "none", quote |-> FALSE,
    spender |-> FALSE, estFrom |-> -1, tx |-> FALSE, reason |-> "none",
    error |-> T_EMPTY, fromAmountRaw |-> 0, allowance |-> -1, last |-> NoSent ]

OneInchBases == {"https://api.1inch.dev", "https://api.1inch.io"}

NoFetch ==
  [ pc |-> "idle", base |-> "", cached |-> "none", tried |-> <<>>,
    statuses |-> <<>>, returned |-> 0 ]

\* ONEINCH_PREFIX_CACHE = {} ("none": no key), and no call of oneInchFetch
NoPfx ==
  [ cache |-> [b \in OneInchBases |-> "none"], calls |-> [c \in 1..2 |-> NoFetch] ]

\* no response of /api/quote received
NoReply ==
  [ kind |-> "none", retryable |-> FALSE, reason |-> "none", minAmount |-> NoHint,
    calls |-> <<>> ]

\* the closure of one run of the quote effect of useQuote (cache.ts 199-283):
\* ignore, retried, where its async function stands, the requests it sent,
\* the responses it got, whether the first and the last of them were
\* failures flagged retryable, and whether it returned on ignore
NoClosure ==
  [ key |-> 0, pc |-> "unused", ignore |-> FALSE, retried |-> FALSE, sent |-> 0,
    got |-> 0, firstRetryable |-> FALSE, lastRetryable |-> FALSE,
    dropped |-> FALSE ]

\* one useQuote hook (cache.ts 160-327): its five states, each with the
\* effect run that wrote it (0: initial or reset), its request key (0: no
\* request or amount '0'), the closures of its quote effect and the lookups
\* of its min-amount effect
NoHk ==
  [ mounted |-> TRUE, key |-> 0, cur |-> 0, gen |-> 0,
    data |-> 0, error |-> 0, reason |-> "none", minAmount |-> NoHint, minBy |-> 0,
    loading |-> FALSE,
    q |-> [g \in 1..MaxGen |-> NoClosure], m |-> <<>> ]

NoThrows == [exp |-> {}, bin |-> FALSE]

NoCall ==
  [ called |-> FALSE, body |-> NoRequest, run |-> <<>>,
    result |-> OneInchResult(FALSE, 0, FALSE, NoError, "none", FALSE) ]

\* SwapCard before any quote: no quote, nothing typed
NoFee ==
  [ rendered |-> FALSE, quote |-> FALSE, value |-> [kind |-> "none", n |-> 0],
    chainId |-> 1, toChainId |-> 1, fromAddress |-> "", fromAmountRaw |-> 0,
    txValueWei |-> 0, bridgeFeeWei |-> 0 ]

NoOp ==
  [ kind |-> "none", key |-> <<>>, value |-> NoHint, ttl |-> 0, at |-> 0,
    result |-> NoHint, before |-> <<>> ]

InitCommon ==
  /\ srv = NoSrv
  /\ appr = NoAppr
  /\ pfx = NoPfx
  /\ hk = NoHk
  /\ tt = NoThrows
  /\ fee = NoFee
  /\ quoteCall = NoCall
  /\ runs = [i \in 1..2 |-> NoRun]
  /\ seen = NoHint
  /\ op = NoOp
  /\ cache = <<>>
  /\ now = 0
  /\ pc = "idle"
  /\ req = NoRequest
  /\ resp = NoResponse
  /\ trace = NoTrace
  /\ uiRouter = "auto"
  /\ uiChain = 1
  /\ uiToChain = 1
  /\ uiToToken = FALSE
  /\ uiAmount = 0
  /\ one = NoHook
  /\ li = NoHook

InitResolverIdle ==
  /\ rpc = "idle"
  /\ rBody = NoRequest
  /\ rM = 0
  /\ rIdx = -1
  /\ rLo = 0
  /\ rHi = 0
  /\ rLo0 = 0
  /\ rHi0 = 0
  /\ rIter = 0
  /\ rTrials = 0
  /\ rNet = 0
  /\ rHint = NoHint
  /\ rCached = FALSE
  /\ rResp = NoMinResponse

Init == InitCommon /\ InitResolverIdle

Next == POST \/ Reply \/ MinAmountPOST

Spec == Init /\ [][Next]_vars

(***************************************************************************)
(* Properties of the quote endpoint                                        *)
(***************************************************************************)
Responded == pc = "responded"
CrossChain == req.fromChainId # req.toChainId
\* `${raw} ${human}` of the failure that was classified
FailureText == trace.raw \cup {trace.human}

\* C1 (as stated): every cross-chain request in auto, oneinch-direct or lifi
\* mode is served by the LI.FI adapter; what the caller receives is never the
\* 1inch adapter's success or failure.
C1_CrossChainAlwaysLifi ==
  (Responded /\ CrossChain /\ req.router \in {"auto", "oneinch-direct", "lifi-smart"})
    => (resp.adapter = "lifi" /\ trace.lifi # "none")

\* C1 (amended): a cross-chain request in auto or lifi mode is served by the
\* LI.FI adapter without the 1inch adapter being invoked; a cross-chain
\* oneinch-direct request receives the 1inch adapter's immediate failure
\* (no network call, reason OTHER) and LI.FI is not called.
C1_CrossChainRouting ==
  (Responded /\ CrossChain) =>
    /\ req.router \in {"auto", "lifi-smart"} =>
         (resp.adapter = "lifi" /\ trace.lifi # "none" /\ trace.oneinch = "none")
    /\ req.router = "oneinch-direct" =>
         /\ ~resp.ok
         /\ resp.adapter = "oneinch"
         /\ trace.oneinch = "fastfail"
         /\ ~trace.oneinchNet
         /\ trace.lifi = "none"
         /\ resp.reason = "OTHER"
         /\ ~resp.retryable
         /\ resp.status = 400
         /\ resp.error = T_CROSS

C1_Witness ==
  /\ Responded /\ CrossChain /\ req.router = "auto"
  /\ resp.ok /\ resp.adapter = "lifi" /\ resp.toAmount > 0

\* the call whose outcome decides the response exceeded its deadline
PrimaryTimedOut ==
  \/ trace.lifi = "timeout"
  \/ trace.lifi = "none" /\ trace.oneinch = "timeout"

\* C3: whenever the primary quote call exceeds its deadline, on the LI.FI path
\* as on the 1inch path, the caller receives a failure with reason TIMEOUT.
C3_TimeoutSurfacesAsTimeout ==
  (Responded /\ PrimaryTimedOut) =>
    (~resp.ok /\ resp.hasReason /\ resp.reason = "TIMEOUT")

\* C4: a failure the adapter tagged as a timeout is classified TIMEOUT,
\* whatever its text and whether or not a hint is cached for the pair.
C4_TaggedTimeoutClassifiedTimeout ==
  (Responded /\ trace.classified /\ trace.tagged) => resp.reason = "TIMEOUT"

\* C5: the probes decide together: MIN_AMOUNT if one succeeded, otherwise
\* TIMEOUT if one timed out, otherwise the reason stays NO_LIQUIDITY.
C5_ProbeDecision ==
  (Responded /\ trace.probeAdapter # "none") =>
    LET n == Len(trace.settled)
    IN /\ n = Len(trace.probes)
       /\ n > 0
       /\ resp.reason =
            IF \E i \in 1..n : trace.settled[i] = "ok" THEN "MIN_AMOUNT"
            ELSE IF \E i \in 1..n : trace.settled[i] = "timeout" THEN "TIMEOUT"
            ELSE "NO_LIQUIDITY"

C5_Witness ==
  /\ Responded
  /\ trace.probeAdapter # "none"
  /\ trace.settled = <<"timeout", "timeout">>
  /\ resp.reason = "TIMEOUT"

\* C6: for a failure that is not tagged as a timeout, a cached minimum above
\* the requested amount gives MIN_AMOUNT without any probe; a cached minimum
\* at or below the requested amount leaves reason, message, retryable and the
\* probing what they are without a cached hint.
C6_CachedMinimum ==
  (Responded /\ trace.classified /\ ~trace.tagged /\ trace.cachedMin # NoHint) =>
    IF req.fromAmount < trace.cachedMin.fromAmount
    THEN /\ resp.reason = "MIN_AMOUNT"
         /\ trace.probes = <<>>
         /\ trace.probeAdapter = "none"
    ELSE LET without == failureResponse(req, NoHint, resp.adapter, trace.status,
                                        trace.raw, trace.human, trace.settled)
         IN /\ (trace.probes # <<>>) = probeIssued(req, NoHint, trace.raw, trace.human)
            /\ resp.reason = without.reason
            /\ resp.retryable = without.retryable
            /\ resp.error = without.error

C6_Witness ==
  /\ Responded /\ trace.classified /\ ~trace.tagged
  /\ trace.cachedMin.fromAmount = 2
  /\ req.fromAmount = 1
  /\ isNoQuoteLike(FailureText)
  /\ resp.reason = "MIN_AMOUNT"

C6_WitnessAtMinimum ==
  /\ Responded /\ trace.classified /\ ~trace.tagged
  /\ trace.cachedMin.fromAmount = 2
  /\ req.fromAmount = 2
  /\ trace.probes # <<>>

\* C7: retryable is true only with final reason NO_LIQUIDITY, a no-route or
\* no-quote text and no unfixable signal; MIN_AMOUNT and TIMEOUT responses
\* are never retryable.
C7_Retryable ==
  Responded =>
    /\ resp.retryable =>
         /\ resp.hasReason
         /\ resp.reason = "NO_LIQUIDITY"
         /\ isNoQuoteLike(FailureText)
         /\ ~isUnfixableForBiggerAmount(FailureText)
    /\ resp.reason \in {"MIN_AMOUNT", "TIMEOUT"} => ~resp.retryable

\* 1 unit of a $2 token fails with "No available quotes ...", a probe succeeds
C7_Witness ==
  /\ Responded
  /\ req.fromAmount = 1
  /\ req.fromToken.priceUSD = 2 * USD
  /\ trace.raw = {T_NO_QUOTES}
  /\ \E i \in 1..Len(trace.settled) : trace.settled[i] = "ok"
  /\ resp.reason = "MIN_AMOUNT"
  /\ ~resp.retryable

EstimatedUsd ==
  amountUsd(req.fromAmount, req.fromToken.decimals, req.fromToken.priceUSD)

NoQuoteCandidate ==
  /\ trace.classified
  /\ ~(trace.cachedMin # NoHint /\ req.fromAmount < trace.cachedMin.fromAmount)
  /\ baseReason(trace.raw, trace.human) = "NO_LIQUIDITY"
  /\ isNoQuoteLike(FailureText)

\* C8 (as stated): probes are issued only when the reason is the NO_LIQUIDITY
\* candidate of a no-route match, nothing unfixable is signalled and the
\* estimated USD value of the request is below $50.
C8_ProbesOnlyBelowThreshold ==
  (Responded /\ trace.probes # <<>>) =>
    /\ NoQuoteCandidate
    /\ ~isUnfixableForBiggerAmount(FailureText)
    /\ EstimatedUsd # -1
    /\ EstimatedUsd < DISAMBIGUATE_USD * USD

\* C8 (amended): probes are issued exactly when the reason is the NO_LIQUIDITY
\* candidate of a no-route match, nothing unfixable is signalled, and the
\* estimated USD value is below $50 or no estimate exists (no usable price).
C8_ProbesIffEligible ==
  Responded =>
    ( (trace.probes # <<>> /\ trace.probeAdapter # "none")
      <=> /\ NoQuoteCandidate
          /\ ~isUnfixableForBiggerAmount(FailureText)
          /\ (EstimatedUsd = -1 \/ EstimatedUsd < DISAMBIGUATE_USD * USD) )

C8_Witness ==
  /\ Responded
  /\ trace.probes # <<>>
  /\ req.fromToken.priceUSD = 0

C8_WitnessNoProbe ==
  /\ Responded
  /\ NoQuoteCandidate
  /\ ~isUnfixableForBiggerAmount(FailureText)
  /\ EstimatedUsd >= DISAMBIGUATE_USD * USD
  /\ trace.probes = <<>>

(***************************************************************************)
(* computeMinAmountHint step by step (minAmount.ts 148-210)                *)
(***************************************************************************)
ResolverRequests ==
  [ router : {"oneinch-direct", "lifi-smart"},
    fromChainId : {1},
    toChainId : Chains,
    fromToken : {[address |-> "0xAAaa", decimals |-> 0, priceUSD |-> 2 * USD]},
    toToken : {ToTokenAddress},
    fromAmount : 1..MaxStart ]

\* thresholds of the provider: none, the small ones, and those around and
\* between the candidates start * 10^k
ResolverThresholds(start) ==
  (0..MaxSmallThreshold)
  \cup { start * Pow(EXP_FACTOR, k) + d : k \in 1..EXP_STEPS, d \in {-1, 0, 1} }
  \cup { (start * Pow(EXP_FACTOR, k)) \div 2 + 1 : k \in 1..EXP_STEPS }
  \cup { (start * Pow(EXP_FACTOR, k)) \div 3 : k \in 1..EXP_STEPS }
  \cup { start * Pow(EXP_FACTOR, k) + 1
           + (j * 9 * start * Pow(EXP_FACTOR, k)) \div Fractions :
           k \in 0..(EXP_STEPS - 2), j \in 0..(Fractions - 1) }

InitMin ==
  /\ InitCommon
  /\ rpc = "start"
  /\ rBody \in ResolverRequests
  /\ rM \in ResolverThresholds(rBody.fromAmount)
  /\ rIdx = -1
  /\ rLo = 0
  /\ rHi = 0
  /\ rLo0 = 0
  /\ rHi0 = 0
  /\ rIter = 0
  /\ rTrials = 0
  /\ rNet = 0
  /\ rHint = NoHint
  /\ rCached = FALSE
  /\ rResp = NoMinResponse

\* cache lookup and exponential phase (minAmount.ts 149-188)
ExponentialPhase ==
  /\ rpc = "start"
  /\ LET key == minCacheKey(rBody)
         cached == cacheGet(cache, key, now)
         idx == findIndex(rBody, rM)
     IN /\ cache' = cacheAfterGet(cache, key, now)
        /\ IF cached # NoHint
           THEN /\ rHint' = cached
                /\ rCached' = TRUE
                /\ rResp' = minAmountResponse(cached)
                /\ rpc' = "done"
                /\ UNCHANGED <<rIdx, rLo, rHi, rLo0, rHi0, rNet>>
           ELSE IF rBody.fromAmount <= 0 \/ idx = -1
           THEN /\ rHint' = NoHint
                /\ rCached' = FALSE
                /\ rResp' = minAmountResponse(NoHint)
                /\ rpc' = "done"
                /\ rIdx' = -1
                /\ rNet' = rNet + exponentialNetwork(rBody, rM)
                /\ UNCHANGED <<rLo, rHi, rLo0, rHi0>>
           ELSE /\ rIdx' = idx
                /\ rLo' = initialLo(rBody.fromAmount, idx)
                /\ rHi' = initialHi(rBody.fromAmount, idx)
                /\ rLo0' = initialLo(rBody.fromAmount, idx)
                /\ rHi0' = initialHi(rBody.fromAmount, idx)
                /\ rCached' = FALSE
                /\ rpc' = "binary"
                /\ rNet' = rNet + exponentialNetwork(rBody, rM)
                /\ UNCHANGED <<rHint, rResp>>
  /\ UNCHANGED <<auxVars, feeVars, now, postVars, ovVars, uiVars, rBody, rM, rIter, rTrials>>

\* one pass of the binary loop that issues a trial quote (minAmount.ts 192-198)
BinaryTrial ==
  /\ rpc = "binary"
  /\ rIter < MAX_BIN
  /\ midpoint(rLo, rHi) < rHi
  /\ LET n == binaryStep(rBody, rM, rLo, rHi)
     IN /\ rLo' = n[1]
        /\ rHi' = n[2]
  /\ rIter' = rIter + 1
  /\ rTrials' = rTrials + 1
  /\ rNet' = IF trialNetwork(rBody, rM, midpoint(rLo, rHi)) THEN rNet + 1 ELSE rNet
  /\ UNCHANGED <<auxVars, feeVars, cache, now, postVars, ovVars, uiVars, rpc, rBody, rM, rIdx, rLo0, rHi0,
                 rHint, rCached, rResp>>

\* the loop ends (budget used, or break): the hint is cached and returned
\* (minAmount.ts 195, 200-209)
BinaryFinish ==
  /\ rpc = "binary"
  /\ ~(rIter < MAX_BIN /\ midpoint(rLo, rHi) < rHi)
  /\ rHint' = [fromAmount |-> rHi]
  /\ rResp' = minAmountResponse([fromAmount |-> rHi])
  /\ cache' = cacheSet(cache, minCacheKey(rBody), [fromAmount |-> rHi], MIN_TTL_MS, now)
  /\ rpc' = "done"
  /\ UNCHANGED <<auxVars, feeVars, now, postVars, ovVars, uiVars, rBody, rM, rIdx, rLo, rHi, rLo0, rHi0,
                 rIter, rTrials, rNet, rCached>>

\* the caller asks again for the same request
ResolveAgain ==
  /\ rpc = "done"
  /\ rpc' = "start"
  /\ rIdx' = -1
  /\ rLo' = 0
  /\ rHi' = 0
  /\ rLo0' = 0
  /\ rHi0' = 0
  /\ rIter' = 0
  /\ rTrials' = 0
  /\ rNet' = 0
  /\ rHint' = NoHint
  /\ rCached' = FALSE
  /\ rResp' = NoMinResponse
  /\ UNCHANGED <<auxVars, feeVars, cache, now, postVars, ovVars, uiVars, rBody, rM>>

NextMin == ExponentialPhase \/ BinaryTrial \/ BinaryFinish \/ ResolveAgain

SpecMin == InitMin /\ [][NextMin]_vars

\* the trial quotes of the request are answered by the threshold provider
ThresholdProvider ==
  /\ rM >= 1
  /\ ~(isOneInch(rBody.router) /\ rBody.fromChainId # rBody.toChainId)

Searched == rpc \in {"binary", "done"} /\ ~rCached

\* C9 (as stated): with a provider accepting exactly the amounts >= M, the
\* exponential phase finds a succeeding candidate whenever M <= S * 10^8.
C9_ExponentialFindsUpTo1e8 ==
  (Searched /\ ThresholdProvider
     /\ rM <= rBody.fromAmount * Pow(EXP_FACTOR, EXP_STEPS))
    => (rIdx >= 0 /\ (rpc = "done" => rHint # NoHint))

\* C9 (amended): with a provider accepting exactly the amounts >= M, the
\* exponential phase finds a succeeding candidate, and the resolver returns a
\* hint, whenever M <= S * 10^7, its eighth and largest candidate; above
\* S * 10^7 no candidate succeeds and the resolver returns no hint.
C9_ExponentialFindsUpTo1e7 ==
  /\ (Searched /\ ThresholdProvider
        /\ rM <= rBody.fromAmount * Pow(EXP_FACTOR, EXP_STEPS - 1))
       => /\ rIdx \in 0..(EXP_STEPS - 1)
          /\ Accepts(rM, candidates(rBody.fromAmount)[rIdx])
          /\ rpc = "done" => (rHint # NoHint /\ rHint.fromAmount >= rM)
  /\ (Searched /\ ThresholdProvider
        /\ rM > rBody.fromAmount * Pow(EXP_FACTOR, EXP_STEPS - 1))
       => (rIdx = -1 /\ rpc = "done" /\ rHint = NoHint)

C9_Witness ==
  /\ rpc = "done"
  /\ ~rCached
  /\ ThresholdProvider
  /\ rM = rBody.fromAmount * Pow(EXP_FACTOR, EXP_STEPS - 1)
  /\ rIdx = EXP_STEPS - 1
  /\ rHint.fromAmount = rM

\* ceil(a / 2^MAX_BIN)
CeilShift(a) == (a + Pow(2, MAX_BIN) - 1) \div Pow(2, MAX_BIN)

C10_State ==
  (Searched /\ ThresholdProvider /\ rIdx >= 0) =>
    /\ rTrials <= MAX_BIN
    /\ rIdx >= 1 =>
         /\ rLo < rM /\ rM <= rHi
         /\ rLo0 <= rLo /\ rHi <= rHi0
         /\ rpc = "done" =>
              /\ rM <= rHint.fromAmount
              /\ rHint.fromAmount - rM < CeilShift(rHi0 - rLo0)
    /\ (rIdx = 0 /\ rpc = "done") => rHint.fromAmount = rBody.fromAmount

C10_Step ==
  (rpc = "binary" /\ ThresholdProvider) => (rHi' <= rHi /\ rLo' >= rLo)

\* C10: with a threshold provider and M bracketed by the exponential phase,
\* the binary phase issues at most 6 trials, keeps lo < M <= hi with hi never
\* increasing and lo never decreasing, and returns r with M <= r and
\* r - M < ceil((hi0 - lo0) / 2^6); when the first candidate already succeeds
\* r is the requested amount.
C10_BinaryPhase == [](C10_State) /\ [][C10_Step]_vars

C10_Witness ==
  /\ rpc = "done"
  /\ ~rCached
  /\ ThresholdProvider
  /\ rIdx >= 1
  /\ rTrials = MAX_BIN
  /\ rHint.fromAmount > rM

\* C11: when no candidate of the exponential phase yields a quote, the
\* resolver returns no hint, the cache holds nothing for the key, and the
\* caller is answered without an error (no error status, no error message).
C11_UnresolvedIsNotAnError ==
  (rpc = "done" /\ ~rCached /\ rIdx = -1) =>
    /\ rHint = NoHint
    /\ minCacheKey(rBody) \notin DOMAIN cache
    /\ rResp.status < 400
    /\ rResp.error = T_EMPTY

(***************************************************************************)
(* SwapCard router selection (TokenSelect.tsx 787-884) over two useQuote   *)
(* hooks (useQuote, cache.ts 160-327)                                      *)
(***************************************************************************)
CardFromToken == [address |-> "0xAAaa", decimals |-> 0, priceUSD |-> 2 * USD]

isCrossChain(chain, toChain) == chain # toChain

routeOptions(chain, toChain) ==
  IF isCrossChain(chain, toChain) THEN {"lifi-smart"}
  ELSE {"auto", "oneinch-direct", "lifi-smart"}

autoEnabled(router, chain, toChain) ==
  router = "auto" /\ ~isCrossChain(chain, toChain)

\* quoteReqCommon is null without destination token or amount
quoteReqCommon(router, chain, toChain, toToken, amount) ==
  IF ~toToken \/ amount = 0 THEN NoRequest
  ELSE [ router |-> router, fromChainId |-> chain, toChainId |-> toChain,
         fromToken |-> CardFromToken, toToken |-> ToTokenAddress,
         fromAmount |-> amount ]

quoteReqOneInch(router, chain, toChain, toToken, amount) ==
  IF isCrossChain(chain, toChain) THEN NoRequest
  ELSE IF ~(autoEnabled(router, chain, toChain) \/ router = "oneinch-direct")
  THEN NoRequest
  ELSE quoteReqCommon("oneinch-direct", chain, toChain, toToken, amount)

quoteReqLiFi(router, chain, toChain, toToken, amount) ==
  IF isCrossChain(chain, toChain)
  THEN quoteReqCommon("lifi-smart", chain, toChain, toToken, amount)
  ELSE IF ~(autoEnabled(router, chain, toChain) \/ router = "lifi-smart")
  THEN NoRequest
  ELSE quoteReqCommon("lifi-smart", chain, toChain, toToken, amount)

\* the quote effect of useQuote when its key changes to that of r
\* (cache.ts 181-205): without request everything is cleared, otherwise the
\* hook starts loading and keeps its data
quoteEffect(h, r) ==
  IF r = h.req THEN h
  ELSE IF r = NoRequest THEN NoHook
  ELSE [ h EXCEPT !.req = r, !.loading = TRUE, !.retried = FALSE,
                  !.failed = FALSE, !.reason = "none" ]

\* a response of /api/quote reaches the hook (cache.ts 230-277)
quoteResponse(h, r) ==
  IF ~r.ok /\ r.retryable /\ ~h.retried
  THEN [h EXCEPT !.retried = TRUE]
  ELSE IF ~r.ok
  THEN [ h EXCEPT !.loading = FALSE, !.failed = TRUE, !.reason = r.reason,
                  !.hasData = FALSE, !.toAmount = 0, !.forAmount = 0 ]
  ELSE [ h EXCEPT !.loading = FALSE, !.failed = FALSE, !.reason = "none",
                  !.hasData = TRUE, !.toAmount = r.toAmount,
                  !.forAmount = h.req.fromAmount ]

quoteOk(h) == h.hasData /\ h.toAmount > 0

\* autoPicked preferring LiFi on equal outputs
autoPicked_strict(router, chain, toChain, o, l) ==
  IF ~autoEnabled(router, chain, toChain) THEN "none"
  ELSE IF quoteOk(o) /\ quoteOk(l)
  THEN (IF o.toAmount > l.toAmount THEN "oneinch-direct" ELSE "lifi-smart")
  ELSE IF quoteOk(o) THEN "oneinch-direct"
  ELSE IF quoteOk(l) THEN "lifi-smart"
  ELSE "none"

autoPicked(router, chain, toChain, o, l) ==
  IF ~autoEnabled(router, chain, toChain) THEN "none"
  ELSE IF quoteOk(o) /\ quoteOk(l)
  THEN (IF o.toAmount >= l.toAmount THEN "oneinch-direct" ELSE "lifi-smart")
  ELSE IF quoteOk(o) THEN "oneinch-direct"
  ELSE IF quoteOk(l) THEN "lifi-smart"
  ELSE "none"

effectiveRouter(router, chain, toChain, o, l) ==
  IF isCrossChain(chain, toChain) THEN "lifi-smart"
  ELSE IF router = "auto"
  THEN (IF autoPicked(router, chain, toChain, o, l) = "none" THEN "lifi-smart"
        ELSE autoPicked(router, chain, toChain, o, l))
  ELSE router

\* which hook SwapCard renders: "one" or "li"
active(router, chain, toChain, o, l) ==
  IF effectiveRouter(router, chain, toChain, o, l) = "oneinch-direct" THEN "one" ELSE "li"

\* re-render after a state change: both hooks run their quote effect
Rerender(router, chain, toChain, toToken, amount) ==
  /\ one' = quoteEffect(one, quoteReqOneInch(router, chain, toChain, toToken, amount))
  /\ li' = quoteEffect(li, quoteReqLiFi(router, chain, toChain, toToken, amount))

SelectRouter ==
  /\ \E r \in routeOptions(uiChain, uiToChain) :
       /\ r # uiRouter
       /\ uiRouter' = r
       /\ Rerender(r, uiChain, uiToChain, uiToToken, uiAmount)
  /\ UNCHANGED <<auxVars, feeVars, cache, now, postVars, ovVars, minVars, uiChain, uiToChain, uiToToken, uiAmount>>

\* setToChainId, and the effect clearing the destination token (739-744)
SelectToChain ==
  /\ \E c \in Chains :
       /\ c # uiToChain
       /\ uiToChain' = c
       /\ uiToToken' = FALSE
       /\ Rerender(uiRouter, uiChain, c, FALSE, uiAmount)
  /\ UNCHANGED <<auxVars, feeVars, cache, now, postVars, ovVars, minVars, uiRouter, uiChain, uiAmount>>

SelectToToken ==
  /\ ~uiToToken
  /\ uiToToken' = TRUE
  /\ Rerender(uiRouter, uiChain, uiToChain, TRUE, uiAmount)
  /\ UNCHANGED <<auxVars, feeVars, cache, now, postVars, ovVars, minVars, uiRouter, uiChain, uiToChain, uiAmount>>

TypeAmount ==
  /\ \E a \in 0..MaxAmount :
       /\ a # uiAmount
       /\ uiAmount' = a
       /\ Rerender(uiRouter, uiChain, uiToChain, uiToToken, a)
  /\ UNCHANGED <<auxVars, feeVars, cache, now, postVars, ovVars, minVars, uiRouter, uiChain, uiToChain, uiToToken>>

\* the effect forcing LiFi when the chains differ (789-792)
ForceLifi ==
  /\ isCrossChain(uiChain, uiToChain)
  /\ uiRouter # "lifi-smart"
  /\ uiRouter' = "lifi-smart"
  /\ Rerender("lifi-smart", uiChain, uiToChain, uiToToken, uiAmount)
  /\ UNCHANGED <<auxVars, feeVars, cache, now, postVars, ovVars, minVars, uiChain, uiToChain, uiToToken, uiAmount>>

\* /api/quote answers the request of the 1inch hook
OneResponse ==
  /\ one.loading
  /\ \E out \in postOutcomes(one.req, getCachedMinAmountHint(cache, one.req, now)) :
       /\ one' = quoteResponse(one, out.resp)
       /\ cache' = IF out.readCache
                   THEN cacheAfterGet(cache, minCacheKey(one.req), now)
                   ELSE cache
  /\ UNCHANGED <<auxVars, feeVars, now, postVars, ovVars, minVars, uiRouter, uiChain, uiToChain, uiToToken,
                 uiAmount, li>>

\* /api/quote answers the request of the LiFi hook
LiResponse ==
  /\ li.loading
  /\ \E out \in postOutcomes(li.req, getCachedMinAmountHint(cache, li.req, now)) :
       /\ li' = quoteResponse(li, out.resp)
       /\ cache' = IF out.readCache
                   THEN cacheAfterGet(cache, minCacheKey(li.req), now)
                   ELSE cache
  /\ UNCHANGED <<auxVars, feeVars, now, postVars, ovVars, minVars, uiRouter, uiChain, uiToChain, uiToToken,
                 uiAmount, one>>

NextCard ==
  \/ SelectRouter \/ SelectToChain \/ SelectToToken \/ TypeAmount \/ ForceLifi
  \/ OneResponse \/ LiResponse

SpecCard == Init /\ [][NextCard]_vars

ActiveHook == active(uiRouter, uiChain, uiToChain, one, li)

OvBodies ==
  [ router : {"lifi-smart"},
    fromChainId : {1},
    toChainId : {1},
    fromToken : { [address |-> a, decimals |-> 0, priceUSD |-> 2 * USD] :
                    a \in {"0xAAaa", "0xaaaa"} },
    toToken : {ToTokenAddress},
    fromAmount : 1..MaxStart ]

\* thresholds of the provider: none, and one between each pair of candidates
OvThresholds == {0} \cup { Pow(EXP_FACTOR, k) \div 2 : k \in 1..MaxOvExp }

\* the provider's threshold is rM, the same for every call
InitOverlap ==
  /\ InitCommon
  /\ rM \in OvThresholds
  /\ rpc = "idle"
  /\ rBody = NoRequest
  /\ rIdx = -1
  /\ rLo = 0
  /\ rHi = 0
  /\ rLo0 = 0
  /\ rHi0 = 0
  /\ rIter = 0
  /\ rTrials = 0
  /\ rNet = 0
  /\ rHint = NoHint
  /\ rCached = FALSE
  /\ rResp = NoMinResponse

\* a call enters computeMinAmountHint: the cache check, and on a miss the
\* eight trial quotes of the exponential phase go out (minAmount.ts 149-182)
OvStart(i) ==
  /\ runs[i].pc = "idle"
  /\ \E body \in OvBodies :
       LET key == minCacheKey(body)
           cached == cacheGet(cache, key, now)
       IN /\ cache' = cacheAfterGet(cache, key, now)
          /\ runs' = [runs EXCEPT ![i] =
               IF cached # NoHint
               THEN [ pc |-> "done", body |-> body, hint |-> cached,
                      cached |-> TRUE, trials |-> FALSE ]
               ELSE [ pc |-> "running", body |-> body, hint |-> NoHint,
                      cached |-> FALSE, trials |-> TRUE ]]
  /\ UNCHANGED <<auxVars, feeVars, now, postVars, minVars, uiVars, seen, op>>

\* the trial quotes of a call are answered and it returns: the hint found is
\* written to the cache (minAmount.ts 184-209)
OvFinish(i) ==
  /\ runs[i].pc = "running"
  /\ LET hint == searchMinAmount(runs[i].body, rM)
       IN /\ runs' = [runs EXCEPT ![i].pc = "done", ![i].hint = hint]
          /\ cache' = IF hint = NoHint THEN cache
                      ELSE cacheSet(cache, minCacheKey(runs[i].body), hint,
                                    MIN_TTL_MS, now)
  /\ UNCHANGED <<auxVars, feeVars, now, postVars, minVars, uiVars, seen, op>>

\* the caller has its answer; the next call may come
OvReturn(i) ==
  /\ runs[i].pc = "done"
  /\ runs' = [runs EXCEPT ![i] = NoRun]
  /\ UNCHANGED <<auxVars, feeVars, cache, now, postVars, minVars, uiVars, seen, op>>

\* the classifier of the quote endpoint looks the hint up (route.ts 677, 749)
OvLookup ==
  /\ \E body \in OvBodies :
       /\ seen' = getCachedMinAmountHint(cache, body, now)
       /\ cache' = cacheAfterGet(cache, minCacheKey(body), now)
  /\ UNCHANGED <<auxVars, feeVars, now, postVars, minVars, uiVars, runs, op>>

\* time passes
OvTick ==
  /\ now + TickMs <= MaxNow
  /\ now' = now + TickMs
  /\ UNCHANGED <<auxVars, feeVars, cache, postVars, minVars, uiVars, ovVars>>

NextOverlap ==
  \/ \E i \in 1..2 : OvStart(i)
  \/ \E i \in 1..2 : OvFinish(i)
  \/ \E i \in 1..2 : OvReturn(i)
  \/ OvLookup
  \/ OvTick

SpecOverlap == InitOverlap /\ [][NextOverlap]_vars

\* C12: a hint cached under a key is not replaced by a different hint before
\* it expires: while the entry is within its TTL, no step changes its value.
C12_CachedHintImmutable ==
  [][ \A k \in DOMAIN cache :
        now <= cache[k].exp => (k \in DOMAIN cache' /\ cache'[k].v = cache[k].v) ]_vars

(***************************************************************************)
(* The cache on its own (cache.ts 8-20): any sequence of cacheSet and      *)
(* cacheGet calls, with time passing                                       *)
(***************************************************************************)
\* keys are sequences of parts, as those minCacheKey builds
CacheKeys == {<<"min", "a">>, <<"min", "b">>}
CacheValues == { [fromAmount |-> n] : n \in 1..MaxThreshold }
CacheTtls == {TickMs, 2 * TickMs}

\* cacheSet(key, value, ttlMs) is called
CallCacheSet ==
  /\ \E key \in CacheKeys, value \in CacheValues, ttlMs \in CacheTtls :
       /\ cache' = cacheSet(cache, key, value, ttlMs, now)
       /\ op' = [ kind |-> "set", key |-> key, value |-> value, ttl |-> ttlMs,
                  at |-> now, result |-> NoHint, before |-> cache ]
  /\ UNCHANGED <<auxVars, feeVars, now, postVars, minVars, uiVars, runs, seen>>

\* cacheGet(key) is called
CallCacheGet ==
  /\ \E key \in CacheKeys :
       /\ cache' = cacheAfterGet(cache, key, now)
       /\ op' = [ kind |-> "get", key |-> key, value |-> NoHint, ttl |-> 0,
                  at |-> now, result |-> cacheGet(cache, key, now),
                  before |-> cache ]
  /\ UNCHANGED <<auxVars, feeVars, now, postVars, minVars, uiVars, runs, seen>>

\* time passes
CacheTick ==
  /\ now + TickMs <= MaxNow
  /\ now' = now + TickMs
  /\ UNCHANGED <<auxVars, feeVars, cache, postVars, minVars, uiVars, ovVars>>

NextCache == CallCacheSet \/ CallCacheGet \/ CacheTick

SpecCache == Init /\ [][NextCache]_vars

\* the entries of Map c under the keys other than key
OtherEntries(c, key) == [k \in DOMAIN c \ {key} |-> c[k]]

\* C13, the state part: a cacheGet of an entry within its TTL returns its
\* value and leaves the Map as it was (the expiry is not extended); a
\* cacheGet after the TTL has elapsed returns a miss and removes the entry;
\* a cacheGet of an absent key returns a miss and adds nothing.
C13_State ==
  (op.kind = "get") =>
    /\ (op.key \in DOMAIN op.before /\ op.at <= op.before[op.key].exp) =>
         (op.result = op.before[op.key].v /\ cache = op.before)
    /\ (op.key \in DOMAIN op.before /\ op.at > op.before[op.key].exp) =>
         (op.result = NoHint /\ op.key \notin DOMAIN cache)
    /\ (op.key \notin DOMAIN op.before) =>
         (op.result = NoHint /\ cache = op.before)

\* C13, the step part: a cacheGet right after cacheSet of the same key returns
\* the value set; after a miss the next cacheGet of the key is a miss again;
\* only cacheSet of a key creates its entry or changes its expiry.
C13_Step ==
  /\ (op.kind = "set" /\ op'.kind = "get" /\ op'.key = op.key /\ op'.at = op.at)
       => op'.result = op.value
  /\ (op.kind = "get" /\ op.result = NoHint /\ op'.kind = "get" /\ op'.key = op.key)
       => op'.result = NoHint
  /\ \A k \in DOMAIN cache' :
       (k \notin DOMAIN cache \/ cache'[k].exp # cache[k].exp)
         => (op'.kind = "set" /\ op'.key = k /\ op' # op)

\* C13: cacheGet right after cacheSet returns the value; after the TTL a
\* cacheGet misses and removes the entry, later ones miss too; a read never
\* extends an entry's lifetime.
C13_CacheRoundTrip == [](C13_State) /\ [][C13_Step]_vars

C13_Witness ==
  /\ op.kind = "get"
  /\ op.key \in DOMAIN op.before
  /\ op.at > op.before[op.key].exp
  /\ op.result = NoHint
  /\ op.key \notin DOMAIN cache

\* C14: cacheSet on a key replaces value and expiry, whatever entry the key
\* held before (none, a live one, an expired one): the entry is the value set,
\* expiring ttl after this set; cacheSet and cacheGet of a key leave the
\* entries under all other keys as they were.
C14_OverwriteAndFrame ==
  /\ (op.kind = "set") =>
       /\ op.key \in DOMAIN cache
       /\ cache[op.key] = [v |-> op.value, exp |-> op.at + op.ttl]
  /\ (op.kind \in {"set", "get"}) =>
       OtherEntries(cache, op.key) = OtherEntries(op.before, op.key)

\* an expired entry is overwritten, another key being present
C14_Witness ==
  /\ op.kind = "set"
  /\ op.key \in DOMAIN op.before
  /\ op.at > op.before[op.key].exp
  /\ op.before[op.key].v # op.value
  /\ op.ttl = TickMs
  /\ cache[op.key].exp = op.at + TickMs
  /\ DOMAIN cache = CacheKeys

\* a live entry is overwritten
C14_WitnessLive ==
  /\ op.kind = "set"
  /\ op.key \in DOMAIN op.before
  /\ op.at <= op.before[op.key].exp
  /\ op.before[op.key].v # op.value
  /\ cache[op.key].exp # op.before[op.key].exp

(***************************************************************************)
(* Failures of the auto mode (route.ts 501-516, 656-663, 712-779)          *)
(***************************************************************************)
\* C15: in same-chain auto mode where neither adapter succeeds, the failure
\* returned to the client is the more informative of the two: when the
\* Direct-Swap failure outranks the Bridge-Swap one (a failure with a
\* structured payload outranks one without, and between failures alike in
\* that a 4xx outranks a 5xx), the response reports the Direct-Swap failure.
C15_MoreInformativeFailure ==
  LET MoreInformative(json1, status1, json2, status2) ==
        \/ json1 /\ ~json2
        \/ json1 = json2 /\ status1 \in 400..499 /\ status2 >= 500
  IN
  ( /\ Responded
    /\ req.router = "auto"
    /\ ~CrossChain
    /\ trace.oneinch = "err"
    /\ trace.lifi = "err"
    /\ MoreInformative(trace.oneinchJson, trace.oneinchStatus,
                       trace.lifiJson, trace.status) )
  => resp.adapter = "oneinch"

\* C16: every failure returned for a provider rejection carries exactly one
\* reason out of MIN_AMOUNT, NO_LIQUIDITY, TIMEOUT and OTHER together with a
\* human message, and that message is never the provider's own error text.
C16_ReasonAndHumanMessage ==
  ( /\ Responded
    /\ ~resp.ok
    /\ trace.classified
    /\ \/ trace.lifi = "err"
       \/ trace.oneinch = "err" /\ trace.lifi = "none" )
  => /\ resp.hasReason
     /\ resp.reason \in {"MIN_AMOUNT", "NO_LIQUIDITY", "TIMEOUT", "OTHER"}
     /\ resp.error # T_EMPTY
     /\ resp.error \notin trace.raw

\* C17: no response presents a provider result whose output amount is 0 or
\* missing as a successful quote, whichever router the request names.
C17_ZeroOutputIsNoQuote ==
  (Responded /\ resp.ok) => resp.toAmount > 0

(***************************************************************************)
(* Bridge fee shown by SwapCard (TokenSelect.tsx 764, 787, 935-941,        *)
(* 994-1011, 1221-1229)                                                    *)
(***************************************************************************)
MaxWei == 3

ZERO == "0x0000000000000000000000000000000000000000"

\* quote.tx.value as the endpoint passes it on: absent (no tx, or no value),
\* a hexadecimal or a decimal numeral of n, or a string BigInt rejects
TxValues ==
  [ kind : {"none", "junk"}, n : {0} ] \cup [ kind : {"hex", "dec"}, n : 0..MaxWei ]

parseTxValue(value) ==
  CASE value.kind = "none" -> 0
    [] value.kind = "junk" -> 0
    [] OTHER -> value.n

txValueWei(quote, value) ==
  IF quote /\ value.kind # "none" THEN parseTxValue(value) ELSE 0

fromIsNative(fromAddress) == fromAddress = ZERO

\* bridgeFeeWei without the clamp of the native case
bridgeFeeWei_noClamp(quote, crossChain, valueWei, native, fromAmountRaw) ==
  IF ~quote \/ ~crossChain THEN 0
  ELSE IF valueWei = 0 THEN 0
  ELSE IF native THEN valueWei - fromAmountRaw
  ELSE valueWei

bridgeFeeWei(quote, crossChain, valueWei, native, fromAmountRaw) ==
  IF ~quote \/ ~crossChain THEN 0
  ELSE IF valueWei = 0 THEN 0
  ELSE LET fromWei == fromAmountRaw
       IN IF native
          THEN IF valueWei > fromWei THEN valueWei - fromWei ELSE 0
          ELSE valueWei

\* one render of SwapCard: the memos recomputed from the current quote,
\* chains, source token and typed amount
Render ==
  \E quote \in BOOLEAN, value \in TxValues, chainId \in Chains, toChainId \in Chains,
     fromAddress \in {ZERO, "0xAAaa"}, fromAmountRaw \in 0..MaxWei :
    /\ quote \/ value.kind = "none"
    /\ LET v == txValueWei(quote, value)
       IN fee' = [ rendered |-> TRUE, quote |-> quote, value |-> value,
                   chainId |-> chainId, toChainId |-> toChainId,
                   fromAddress |-> fromAddress, fromAmountRaw |-> fromAmountRaw,
                   txValueWei |-> v,
                   bridgeFeeWei |-> bridgeFeeWei(quote, isCrossChain(chainId, toChainId),
                                                 v, fromIsNative(fromAddress),
                                                 fromAmountRaw) ]
    /\ UNCHANGED <<auxVars, cache, now, postVars, minVars, uiVars, ovVars, quoteCall>>

NextFee == Render

SpecFee == Init /\ [][NextFee]_vars

\* C18: for a cross-chain quote with transaction native value V and trade
\* amount A the bridge fee is V - A when the source token is native (0 when
\* V <= A) and V when it is not; it is 0 for a same-chain quote or when V is
\* 0, and it is never negative.
C18_BridgeFee ==
  (fee.rendered /\ fee.quote) =>
    LET V == parseTxValue(fee.value)
        A == fee.fromAmountRaw
    IN /\ fee.bridgeFeeWei >= 0
       /\ (fee.chainId = fee.toChainId \/ V = 0) => fee.bridgeFeeWei = 0
       /\ (fee.chainId # fee.toChainId /\ fee.fromAddress = ZERO) =>
            fee.bridgeFeeWei = IF V <= A THEN 0 ELSE V - A
       /\ (fee.chainId # fee.toChainId /\ fee.fromAddress # ZERO) =>
            fee.bridgeFeeWei = V

C18_Witness ==
  /\ fee.rendered /\ fee.quote
  /\ fee.chainId # fee.toChainId
  /\ fee.fromAddress = ZERO
  /\ fee.value = [kind |-> "hex", n |-> 2]
  /\ fee.fromAmountRaw = 3
  /\ fee.bridgeFeeWei = 0

C18_WitnessFee ==
  /\ fee.rendered /\ fee.quote
  /\ fee.chainId # fee.toChainId
  /\ fee.fromAddress = ZERO
  /\ fee.value = [kind |-> "dec", n |-> 3]
  /\ fee.fromAmountRaw = 1
  /\ fee.bridgeFeeWei = 2

(***************************************************************************)
(* Direct-Swap adapter and differing chains (route.ts 456-460, 381-386;    *)
(* minAmount.ts 114-115)                                                   *)
(***************************************************************************)
\* C19: when source and destination chain differ the Direct-Swap adapter
\* makes no network call: every trial quote of a resolver call for such a
\* request returns false without fetching, so the call ends unresolved with
\* no network call at all, and oneInchQuote fails at once, whatever the
\* provider would have answered.
C19_CrossChainNoNetwork ==
  (rpc # "idle" /\ rBody.fromChainId # rBody.toChainId) =>
    /\ isOneInch(rBody.router) =>
         /\ rNet = 0
         /\ rpc # "binary"
         /\ \A i \in 0..(EXP_STEPS - 1) :
              LET t == oneInchTrial(rBody, rM, candidates(rBody.fromAmount)[i])
              IN ~t.ok /\ ~t.network
         /\ rpc = "done" => (rHint = NoHint /\ rIdx = -1)
    /\ \A run \in OneInchRuns :
         LET res == oneInchQuote([rBody EXCEPT !.router = "oneinch-direct"], run)
         IN ~res.ok /\ ~res.network /\ res.last = "fastfail"

C19_Witness ==
  /\ rpc = "done"
  /\ isOneInch(rBody.router)
  /\ rBody.fromChainId # rBody.toChainId
  /\ rM = 1
  /\ rNet = 0
  /\ rHint = NoHint

\* the same request on one chain does go to the network
C19_WitnessSameChain ==
  /\ rpc = "done"
  /\ isOneInch(rBody.router)
  /\ rBody.fromChainId = rBody.toChainId
  /\ rM = 1
  /\ rNet = EXP_STEPS
  /\ rHint = [fromAmount |-> 1]

(***************************************************************************)
(* The approval-spender lookup of oneInchQuote (route.ts 518-537)          *)
(***************************************************************************)
\* the runs of the quoteCall with every outcome of the lookup of every base
LookupRuns ==
  { [i \in DOMAIN run |-> [run[i] EXCEPT !.lookup = ls[i]]] :
      run \in OneInchRuns, ls \in [1..2 -> SpenderLookups] }

AdapterBodies ==
  { b \in Requests : b.router = "oneinch-direct" /\ b.fromAmount = 1 }

\* the run with every lookup successful
allLookupsOk(run) == [i \in DOMAIN run |-> [run[i] EXCEPT !.lookup = "ok"]]

\* one call of oneInchQuote
OneInchCall ==
  /\ ~quoteCall.called
  /\ \E body \in AdapterBodies, run \in LookupRuns :
       quoteCall' = [ called |-> TRUE, body |-> body, run |-> run,
                    result |-> oneInchQuote(body, run) ]
  /\ UNCHANGED <<auxVars, cache, now, postVars, minVars, uiVars, ovVars, fee>>

NextAdapter == OneInchCall

SpecAdapter == Init /\ [][NextAdapter]_vars

C20_WitnessSecondBase ==
  /\ quoteCall.called
  /\ Len(quoteCall.run) = 2
  /\ quoteCall.run[1].lookup = "ok"
  /\ quoteCall.run[2].kind = "ok"
  /\ quoteCall.run[2].lookup = "malformed"
  /\ quoteCall.result.ok
  /\ ~quoteCall.result.approvalAddress

(***************************************************************************)
(* One quote request and its outbound calls while its caller may cancel    *)
(* (route.ts 37-50, 180-199, 633-819; useQuote cleanup, cache.ts 280-283)  *)
(***************************************************************************)
notSrv == <<cache, now, postVars, minVars, uiVars, ovVars, feeVars, appr, pfx, hk, tt>>

\* POST starts the provider call of the request: fetchWithTimeout makes an
\* AbortController of its own, fired by its timer only
SrvReceive ==
  /\ srv.pc = "idle"
  /\ \E r \in {"oneinch-direct", "lifi-smart"} :
       srv' = [srv EXCEPT !.pc = "provider", !.router = r, !.provider = "outstanding"]
  /\ UNCHANGED notSrv

\* the provider call settles: answered, rejected, or ended by its own timer;
\* a rejection may start the two probes of disambiguateNoQuote
SrvProviderSettles ==
  /\ srv.pc = "provider"
  /\ srv.provider = "outstanding"
  /\ \E o \in {"ok", "err", "timeout"}, probe \in BOOLEAN :
       srv' = IF o = "err" /\ probe
              THEN [srv EXCEPT !.provider = o, !.pc = "probes",
                               !.probes = <<"outstanding", "outstanding">>]
              ELSE [srv EXCEPT !.provider = o, !.pc = "responded"]
  /\ UNCHANGED notSrv

\* one probe settles: answered, or ended by its own 2500 ms timer
SrvProbeSettles ==
  /\ srv.pc = "probes"
  /\ \E i \in DOMAIN srv.probes, o \in ProbeOutcomes :
       /\ srv.probes[i] = "outstanding"
       /\ srv' = [srv EXCEPT !.probes[i] = o]
  /\ UNCHANGED notSrv

\* Promise.allSettled resolves and POST answers
SrvRespond ==
  /\ srv.pc = "probes"
  /\ \A i \in DOMAIN srv.probes : srv.probes[i] # "outstanding"
  /\ srv' = [srv EXCEPT !.pc = "responded"]
  /\ UNCHANGED notSrv

\* the caller aborts its fetch (cleanup of useQuote) or disconnects: POST
\* never reads req.signal, so nothing of the request changes
CallerCancels ==
  /\ srv.pc \in {"provider", "probes"}
  /\ ~srv.cancelled
  /\ srv' = [srv EXCEPT !.cancelled = TRUE]
  /\ UNCHANGED notSrv

NextCancel ==
  SrvReceive \/ SrvProviderSettles \/ SrvProbeSettles \/ SrvRespond \/ CallerCancels

SpecCancel == Init /\ [][NextCancel]_vars

\* C21: once the caller of a quote request has cancelled it, no provider
\* call and no probe of that request is still outstanding: they are
\* cancelled instead of running on to their own deadline.
C21_CancellationPropagates ==
  srv.cancelled =>
    /\ srv.provider # "outstanding"
    /\ \A i \in DOMAIN srv.probes : srv.probes[i] # "outstanding"

(***************************************************************************)
(* Approve and Swap of SwapCard (TokenSelect.tsx 1066-1109, 1193-1250)     *)
(***************************************************************************)
notAppr == <<cache, now, postVars, minVars, uiVars, ovVars, feeVars, srv, pfx, hk, tt>>

\* quoteReason and quoteError of the active hook
HookFailures ==
  { <<"none", T_EMPTY>>, <<"NO_LIQUIDITY", T_H_LIQUIDITY>>, <<"OTHER", T_LIQUIDITY>>,
    <<"MIN_AMOUNT", T_H_TOO_LOW>>, <<"OTHER", T_INTERNAL>> }

\* quote.estimate.fromAmount: -1 absent, -2 a string BigInt rejects
EstimateFromAmounts == {-2, -1} \cup (0..MaxWei)

\* the allowance read from the token: -1 while there is none
Allowances == {-1} \cup (0..MaxWei)

lowLiquidity(reason, error) ==
  \/ reason = "NO_LIQUIDITY"
  \/ error = T_LIQUIDITY                    \* includes('insufficient')
  \/ error \in {T_LIQUIDITY, T_H_LIQUIDITY} \* includes('liquidity')

needsApproval(a) == a.quote /\ a.spender /\ a.fromToken # ZERO

requiredAllowance(a) ==
  IF ~needsApproval(a) THEN 0
  ELSE LET raw == IF a.quote /\ a.estFrom # -1 THEN a.estFrom ELSE a.fromAmountRaw
       IN IF raw = -2 THEN 0 ELSE raw

allowanceOk(a) ==
  IF ~needsApproval(a) THEN TRUE
  ELSE IF a.allowance = -1 \/ a.allowance = 0 THEN FALSE
  ELSE a.allowance >= requiredAllowance(a)

Sent(handler, amount) ==
  [handler |-> handler, kind |-> "tx", amount |-> amount, error |-> T_EMPTY]

UiError(handler, text) ==
  [handler |-> handler, kind |-> "error", amount |-> 0, error |-> text]

\* onApprove without the check of the amount
onApprove_anyAmount(a, walletOk) ==
  IF ~a.isConnected THEN UiError("onApprove", "Connect wallet first.")
  ELSE IF a.fromToken = "none" \/ a.fromToken = ZERO
  THEN UiError("onApprove", "No approval needed for native token.")
  ELSE IF ~(a.quote /\ a.spender)
  THEN UiError("onApprove", "Missing approval address (no quote).")
  ELSE IF ~walletOk THEN UiError("onApprove", "Approve failed")
  ELSE Sent("onApprove", requiredAllowance(a))

\* walletOk: the chain switch and the wallet's confirmation both succeed
onApprove(a, walletOk) ==
  IF ~a.isConnected THEN UiError("onApprove", "Connect wallet first.")
  ELSE IF a.fromToken = "none" \/ a.fromToken = ZERO
  THEN UiError("onApprove", "No approval needed for native token.")
  ELSE IF ~(a.quote /\ a.spender)
  THEN UiError("onApprove", "Missing approval address (no quote).")
  ELSE IF ~walletOk THEN UiError("onApprove", "Approve failed")
  ELSE IF requiredAllowance(a) <= 0
  THEN UiError("onApprove", "Enter an amount to approve.")
  ELSE Sent("onApprove", requiredAllowance(a))

\* onSwap without the check of the allowance
onSwap_noAllowance(a, walletOk) ==
  IF ~a.isConnected THEN UiError("onSwap", "Connect wallet first.")
  ELSE IF ~(a.quote /\ a.tx)
  THEN UiError("onSwap", "No transaction data. Get a quote first.")
  ELSE IF lowLiquidity(a.reason, a.error)
  THEN UiError("onSwap", "Liquidity looks insufficient for this trade.")
  ELSE IF ~walletOk THEN UiError("onSwap", "Swap failed")
  ELSE Sent("onSwap", 0)

onSwap(a, walletOk) ==
  IF ~a.isConnected THEN UiError("onSwap", "Connect wallet first.")
  ELSE IF ~(a.quote /\ a.tx)
  THEN UiError("onSwap", "No transaction data. Get a quote first.")
  ELSE IF needsApproval(a) /\ ~allowanceOk(a) THEN UiError("onSwap", "Approval required.")
  ELSE IF lowLiquidity(a.reason, a.error)
  THEN UiError("onSwap", "Liquidity looks insufficient for this trade.")
  ELSE IF ~walletOk THEN UiError("onSwap", "Swap failed")
  ELSE Sent("onSwap", 0)

\* a render of SwapCard: wallet, source token, quote, typed amount, allowance
CardRender ==
  /\ appr.pc = "idle"
  /\ \E c \in BOOLEAN, ft \in {"none", ZERO, "0xAAaa"}, q \in BOOLEAN, sp \in BOOLEAN,
        est \in EstimateFromAmounts, tx \in BOOLEAN, f \in HookFailures,
        typed \in 0..MaxWei, al \in Allowances :
       /\ ~q => (~sp /\ est = -1 /\ ~tx)
       /\ appr' = [ pc |-> "ready", isConnected |-> c, fromToken |-> ft, quote |-> q,
                    spender |-> sp, estFrom |-> est, tx |-> tx, reason |-> f[1],
                    error |-> f[2], fromAmountRaw |-> typed, allowance |-> al,
                    last |-> NoSent ]
  /\ UNCHANGED notAppr

ClickApprove ==
  /\ appr.pc = "ready"
  /\ \E walletOk \in BOOLEAN :
       appr' = [appr EXCEPT !.pc = "done", !.last = onApprove(appr, walletOk)]
  /\ UNCHANGED notAppr

ClickSwap ==
  /\ appr.pc = "ready"
  /\ \E walletOk \in BOOLEAN :
       appr' = [appr EXCEPT !.pc = "done", !.last = onSwap(appr, walletOk)]
  /\ UNCHANGED notAppr

NextWallet == CardRender \/ ClickApprove \/ ClickSwap

SpecWallet == Init /\ [][NextWallet]_vars

\* C22: every approval transaction sent approves exactly the raw input
\* amount of the current quote (estimate.fromAmount, or the typed raw amount
\* when the quote has none), and that amount is positive and finite: neither
\* 0 nor an unlimited allowance is ever approved.
C22_ExactApproval ==
  (appr.last.handler = "onApprove" /\ appr.last.kind = "tx") =>
    /\ appr.last.amount =
         (IF appr.estFrom # -1 THEN appr.estFrom ELSE appr.fromAmountRaw)
    /\ appr.last.amount > 0
    /\ appr.last.amount <= MaxWei

C22_Witness ==
  /\ appr.last.handler = "onApprove"
  /\ appr.last.kind = "tx"
  /\ appr.estFrom = 2
  /\ appr.fromAmountRaw = 3
  /\ appr.last.amount = 2

C22_WitnessTyped ==
  /\ appr.last.handler = "onApprove"
  /\ appr.last.kind = "tx"
  /\ appr.estFrom = -1
  /\ appr.fromAmountRaw = 3
  /\ appr.last.amount = 3

\* C30: onSwap sends the swap transaction only when the wallet is connected,
\* the quote carries transaction data, the quote is not flagged as low
\* liquidity and, for a non-native source token whose quote names an
\* approval target, the last-read allowance is at least the quote's input
\* amount; in every other case it sets an error and sends nothing.
C30_SwapGuards ==
  appr.last.handler = "onSwap" =>
    LET input == IF appr.estFrom = -1 THEN appr.fromAmountRaw
                 ELSE IF appr.estFrom = -2 THEN 0 ELSE appr.estFrom
        allowed == /\ appr.isConnected
                   /\ appr.quote /\ appr.tx
                   /\ ~lowLiquidity(appr.reason, appr.error)
                   /\ (appr.fromToken # ZERO /\ appr.spender) =>
                        (appr.allowance # -1 /\ appr.allowance >= input)
    IN /\ appr.last.kind = "tx" => allowed
       /\ ~allowed => (appr.last.kind = "error" /\ appr.last.error # T_EMPTY)

C30_Witness ==
  /\ appr.last.handler = "onSwap"
  /\ appr.last.kind = "tx"
  /\ appr.fromToken = "0xAAaa"
  /\ appr.spender
  /\ appr.estFrom = 2
  /\ appr.allowance = 2

C30_WitnessRefused ==
  /\ appr.last.handler = "onSwap"
  /\ appr.isConnected /\ appr.quote /\ appr.tx
  /\ appr.fromToken = "0xAAaa"
  /\ appr.spender
  /\ appr.estFrom = 3
  /\ appr.allowance = 2
  /\ appr.last.kind = "error"
  /\ appr.last.error = "Approval required."

(***************************************************************************)
(* Trial quotes that throw (minAmount.ts 8-18, 174-198; page.tsx 249-255)  *)
(***************************************************************************)
T_ABORTED == "This operation was aborted"

\* which candidates' trial quotes throw: none, one of them, or all
ThrownSets ==
  {{}} \cup { {i} : i \in 0..(EXP_STEPS - 1) } \cup {0..(EXP_STEPS - 1)}

\* results.findIndex(Boolean) where the trials of the candidates in thrown
\* reject: the catch of the mapper turns each into false
findIndexSettled(body, M, thrown) ==
  LET c == candidates(body.fromAmount)
      hits == {i \in DOMAIN c : i \notin thrown /\ trialOk(body, M, c[i])}
  IN IF hits = {} THEN -1 ELSE CHOOSE i \in hits : \A j \in hits : i <= j

InitTrials ==
  /\ InitCommon
  /\ rpc = "start"
  /\ rBody \in OvBodies
  /\ rM \in OvThresholds
  /\ rIdx = -1
  /\ rLo = 0
  /\ rHi = 0
  /\ rLo0 = 0
  /\ rHi0 = 0
  /\ rIter = 0
  /\ rTrials = 0
  /\ rNet = 0
  /\ rHint = NoHint
  /\ rCached = FALSE
  /\ rResp = NoMinResponse

\* cache lookup and exponential phase, some of whose trials throw
ExponentialSettled ==
  /\ rpc = "start"
  /\ \E thrown \in ThrownSets :
       LET key == minCacheKey(rBody)
           cached == cacheGet(cache, key, now)
           idx == findIndexSettled(rBody, rM, thrown)
       IN /\ cache' = cacheAfterGet(cache, key, now)
          /\ IF cached # NoHint
             THEN /\ rHint' = cached
                  /\ rCached' = TRUE
                  /\ rResp' = minAmountResponse(cached)
                  /\ rpc' = "done"
                  /\ UNCHANGED <<rIdx, rLo, rHi, rLo0, rHi0, rNet, tt>>
             ELSE IF rBody.fromAmount <= 0 \/ idx = -1
             THEN /\ rHint' = NoHint
                  /\ rCached' = FALSE
                  /\ rResp' = minAmountResponse(NoHint)
                  /\ rpc' = "done"
                  /\ rIdx' = -1
                  /\ rNet' = rNet + exponentialNetwork(rBody, rM)
                  /\ tt' = [tt EXCEPT !.exp = thrown]
                  /\ UNCHANGED <<rLo, rHi, rLo0, rHi0>>
             ELSE /\ rIdx' = idx
                  /\ rLo' = initialLo(rBody.fromAmount, idx)
                  /\ rHi' = initialHi(rBody.fromAmount, idx)
                  /\ rLo0' = initialLo(rBody.fromAmount, idx)
                  /\ rHi0' = initialHi(rBody.fromAmount, idx)
                  /\ rCached' = FALSE
                  /\ rpc' = "binary"
                  /\ rNet' = rNet + exponentialNetwork(rBody, rM)
                  /\ tt' = [tt EXCEPT !.exp = thrown]
                  /\ UNCHANGED <<rHint, rResp>>
  /\ UNCHANGED <<now, postVars, ovVars, uiVars, feeVars, srv, appr, pfx, hk,
                 rBody, rM, rIter, rTrials>>

\* a trial quote of the binary loop throws: `await ok(m)` stands in no try
\* block, computeMinAmountHint rejects and the endpoint answers 500
BinaryTrialThrows ==
  /\ rpc = "binary"
  /\ rIter < MAX_BIN
  /\ midpoint(rLo, rHi) < rHi
  /\ \E text \in {T_ABORTED, T_FETCH_FAILED} :
       rResp' = [status |-> 500, error |-> text, minAmount |-> NoHint]
  /\ rHint' = NoHint
  /\ rpc' = "done"
  /\ rTrials' = rTrials + 1
  /\ rNet' = rNet + 1
  /\ tt' = [tt EXCEPT !.bin = TRUE]
  /\ UNCHANGED <<cache, now, postVars, ovVars, uiVars, feeVars, srv, appr, pfx, hk,
                 rBody, rM, rIdx, rLo, rHi, rLo0, rHi0, rIter, rCached>>

NextTrials == ExponentialSettled \/ BinaryTrial \/ BinaryTrialThrows \/ BinaryFinish

SpecTrials == InitTrials /\ [][NextTrials]_vars

\* C23: a trial quote that throws or times out counts as a non-success for
\* its own amount only: the resolver ends with the first candidate whose own
\* trial succeeded, and whenever there is such a candidate it produces a
\* hint, in the binary phase as in the exponential phase.
C23_TrialFailureIsLocal ==
  (rpc = "done" /\ ~rCached) =>
    LET idx == findIndexSettled(rBody, rM, tt.exp)
    IN /\ rIdx = idx
       /\ idx # -1 => (rHint # NoHint /\ rResp.status = 200)

(***************************************************************************)
(* oneInchFetch and ONEINCH_PREFIX_CACHE (route.ts 104-128; minAmount.ts   *)
(* 20-42), two calls in flight at a time                                   *)
(***************************************************************************)
notPfx == <<cache, now, postVars, minVars, uiVars, ovVars, feeVars, srv, appr, hk, tt>>

\* statuses of a response; -1 stands for a fetch that throws
FetchStatuses == {200, 404, 500, -1}

otherPrefix(pref) == IF pref = "" THEN "/swap" ELSE ""

\* oneInchFetch always starting without prefix
prefixes_unremembered(cached) == <<"", "/swap">>

\* the candidates in the order tried, cached being what the base remembers
prefixes(cached) ==
  IF cached # "none" THEN <<cached, otherPrefix(cached)>> ELSE <<"", "/swap">>

\* a call of oneInchFetch begins: it reads the cache once
FetchStart(c) ==
  /\ pfx.calls[c].pc = "idle"
  /\ \E base \in OneInchBases :
       pfx' = [pfx EXCEPT !.calls[c] =
                 [NoFetch EXCEPT !.pc = "run", !.base = base,
                                 !.cached = pfx.cache[base]]]
  /\ UNCHANGED notPfx

\* the fetch of the next candidate settles
FetchSettles(c) ==
  /\ pfx.calls[c].pc = "run"
  /\ \E status \in FetchStatuses :
       LET call == pfx.calls[c]
           i == Len(call.tried) + 1
           pref == prefixes(call.cached)[i]
           next == [call EXCEPT !.tried = Append(call.tried, pref),
                                !.statuses = Append(call.statuses, status)]
       IN IF status = -1
          THEN pfx' = [pfx EXCEPT !.calls[c] =
                         [next EXCEPT !.pc = "done", !.returned = -1]]
          ELSE IF status = 404
          THEN pfx' = [pfx EXCEPT !.calls[c] =
                         IF i = 2 THEN [next EXCEPT !.pc = "done", !.returned = 404]
                         ELSE next]
          ELSE pfx' = [pfx EXCEPT !.cache[call.base] = pref,
                                  !.calls[c] = [next EXCEPT !.pc = "done",
                                                            !.returned = status]]
  /\ UNCHANGED notPfx

\* the caller takes the response; the slot is free for another call
FetchTaken(c) ==
  /\ pfx.calls[c].pc = "done"
  /\ pfx' = [pfx EXCEPT !.calls[c] = NoFetch]
  /\ UNCHANGED notPfx

NextPrefix == \E c \in 1..2 : FetchStart(c) \/ FetchSettles(c) \/ FetchTaken(c)

SpecPrefix == Init /\ [][NextPrefix]_vars

\* what a call has tried so far follows the order fixed by what the base
\* remembered when the call began, the second candidate only after a 404
C24_State ==
  \A c \in 1..2 :
    LET call == pfx.calls[c]
        n == Len(call.tried)
    IN /\ n >= 1 => call.tried[1] = (IF call.cached = "none" THEN "" ELSE call.cached)
       /\ n = 2 => (call.statuses[1] = 404 /\ call.tried[2] = otherPrefix(call.tried[1]))
       /\ (call.pc = "done" /\ call.returned # -1) => call.returned = call.statuses[n]

\* a call that ends with a non-404 response leaves the prefix that produced
\* it remembered for its base; a call that ends on 404 or by throwing changes
\* nothing; no step changes what another base remembers
C24_Step ==
  \A c \in 1..2 :
    LET call == pfx.calls[c]
        done == pfx'.calls[c]
    IN (call.pc = "run" /\ done.pc = "done") =>
         /\ done.returned \notin {404, -1} =>
              pfx'.cache[call.base] = done.tried[Len(done.tried)]
         /\ done.returned \in {404, -1} => pfx'.cache = pfx.cache
         /\ done.returned = 404 => (Len(done.tried) = 2 /\ done.statuses = <<404, 404>>)
         /\ \A b \in OneInchBases \ {call.base} : pfx'.cache[b] = pfx.cache[b]

\* C24: oneInchFetch tries the remembered prefix first ('' when none is
\* remembered) and the other only after a 404; a non-404 response makes its
\* prefix the remembered one; two 404s leave the cache unchanged and return
\* the last response; prefixes of other bases are never changed.
C24_PrefixCache == [](C24_State) /\ [][C24_Step]_vars

C24_Witness ==
  \E c \in 1..2 :
    /\ pfx.calls[c].pc = "done"
    /\ pfx.calls[c].cached = "/swap"
    /\ pfx.calls[c].tried = <<"/swap", "">>
    /\ pfx.calls[c].statuses = <<404, 200>>
    /\ pfx.cache[pfx.calls[c].base] = ""
    /\ \E b \in OneInchBases : pfx.cache[b] = "/swap"

C24_WitnessBoth404 ==
  \E c \in 1..2 :
    /\ pfx.calls[c].pc = "done"
    /\ pfx.calls[c].cached = "/swap"
    /\ pfx.calls[c].statuses = <<404, 404>>
    /\ pfx.calls[c].returned = 404
    /\ pfx.cache[pfx.calls[c].base] = "/swap"

(***************************************************************************)
(* Keyword classification (route.ts 334-372)                               *)
(***************************************************************************)
\* C25 as stated: for a classified failure that is no timeout, by tag or by
\* text, answered without a cached hint, the reason is MIN_AMOUNT if the text
\* matches the min-amount keywords, otherwise NO_LIQUIDITY if it matches the
\* no-route/no-quote keywords, otherwise OTHER.
C25_TwoKeywordSets ==
  LET s == trace.raw \cup {trace.human}
  IN (/\ Responded /\ trace.classified /\ ~trace.tagged
      /\ trace.cachedMin = NoHint
      /\ ~(includes(s, "timed out") \/ includes(s, "timeout") \/ includes(s, "time out"))
      /\ trace.probeAdapter = "none") =>
       resp.reason = IF isMinAmountLike(s) THEN "MIN_AMOUNT"
                     ELSE IF isNoQuoteLike(s) THEN "NO_LIQUIDITY"
                     ELSE "OTHER"

\* C25 amended: the reason before disambiguation is MIN_AMOUNT if the text
\* matches the min-amount keywords, otherwise NO_LIQUIDITY if it matches the
\* no-route/no-quote keywords, an unfixable signal or the word liquidity,
\* otherwise OTHER; the reason returned is that one unless probes ran, and
\* probes run only from NO_LIQUIDITY.
C25_KeywordClassification ==
  LET s == trace.raw \cup {trace.human}
      byText == IF isMinAmountLike(s) THEN "MIN_AMOUNT"
                ELSE IF \/ isNoQuoteLike(s)
                        \/ isUnfixableForBiggerAmount(s)
                        \/ includes(s, "liquidity")
                THEN "NO_LIQUIDITY"
                ELSE "OTHER"
  IN (/\ Responded /\ trace.classified /\ ~trace.tagged
      /\ trace.cachedMin = NoHint
      /\ ~(includes(s, "timed out") \/ includes(s, "timeout") \/ includes(s, "time out"))) =>
       /\ trace.probeAdapter = "none" => resp.reason = byText
       /\ trace.probeAdapter # "none" => byText = "NO_LIQUIDITY"

\* both keyword sets match: MIN_AMOUNT
C25_Witness ==
  /\ Responded /\ trace.classified /\ ~trace.tagged
  /\ trace.cachedMin = NoHint
  /\ trace.raw = {T_MIN_NO_ROUTE}
  /\ isMinAmountLike(trace.raw) /\ isNoQuoteLike(trace.raw)
  /\ resp.reason = "MIN_AMOUNT"

\* only the word liquidity: NO_LIQUIDITY
C25_WitnessLiquidity ==
  /\ Responded /\ trace.classified /\ ~trace.tagged
  /\ trace.cachedMin = NoHint
  /\ trace.raw = {T_LIQUIDITY}
  /\ ~isNoQuoteLike(trace.raw \cup {trace.human})
  /\ resp.reason = "NO_LIQUIDITY"

C26_WitnessMixed ==
  /\ Responded
  /\ trace.probeAdapter # "none"
  /\ req.fromAmount = 2
  /\ req.fromToken.priceUSD = USD \div 100
  /\ trace.probes = <<1000, 4000>>

\* no price: the multiples alone
C26_WitnessNoPrice ==
  /\ Responded
  /\ trace.probeAdapter # "none"
  /\ req.fromAmount = 2
  /\ req.fromToken.priceUSD = 0
  /\ trace.probes = <<400, 4000>>

(***************************************************************************)
(* useQuote: quote effect and min-amount effect (cache.ts 160-327)         *)
(***************************************************************************)
notHk == <<now, postVars, minVars, uiVars, ovVars, feeVars, srv, appr, pfx, tt>>

\* the keys of the two requests the hook is given; 0 stands for no request
HookKeys == {1, 2}

\* the requests behind the keys: they differ in amount
HookBody(k) ==
  [ router |-> "lifi-smart", fromChainId |-> 1, toChainId |-> 1,
    fromToken |-> CardFromToken, toToken |-> ToTokenAddress, fromAmount |-> k ]

\* the provider calls POST made for one request: <<provider, amount>>
providerCalls(body, tr) ==
  (IF tr.oneinch # "none" THEN << <<"oneinch", body.fromAmount>> >> ELSE <<>>)
  \o (IF tr.lifi # "none" THEN << <<"lifi", body.fromAmount>> >> ELSE <<>>)
  \o [i \in 1..Len(tr.probes) |-> <<tr.probeAdapter, tr.probes[i]>>]

\* what fetchOnce can return or throw for body: the responses of POST as the
\* hook reads them (r.ok, payload.retryable, payload.reason,
\* payload.minAmount), or a fetch that throws
HookReplies(body, cachedMin) ==
  { [ kind |-> IF out.resp.ok THEN "ok" ELSE "fail",
      retryable |-> out.resp.retryable,
      reason |-> IF out.resp.hasReason THEN out.resp.reason ELSE "none",
      minAmount |-> out.resp.minAmount,
      calls |-> providerCalls(body, out.trace) ] :
    out \in postOutcomes(body, cachedMin) }
  \cup { [NoReply EXCEPT !.kind = "throw"] }

\* HookReplies for every request of the hook and every cached hint
HookRepliesOf ==
  [ k \in HookKeys, n \in 0..(MaxAmount + MaxThreshold) |->
      HookReplies(HookBody(k), [fromAmount |-> n]) ]

\* cleanup of the min-amount effect: cancelled = true for the running lookup
cancelLookups(m) == [i \in DOMAIN m |-> [m[i] EXCEPT !.cancelled = TRUE]]

\* cleanup of the quote effect: ignore = true
ignoreClosure(q, g) ==
  IF g = 0 THEN q ELSE [q EXCEPT ![g].ignore = TRUE]

\* the min-amount effect starting on another reason
lookupStarts_liquidity(key, reason, minAmount) ==
  key # 0 /\ reason = "NO_LIQUIDITY" /\ minAmount = NoHint

\* the min-amount effect in a render with that key, reason and minAmount
\* (cache.ts 288-291)
lookupStarts(key, reason, minAmount) ==
  key # 0 /\ reason = "MIN_AMOUNT" /\ minAmount = NoHint

newLookup(g, key, cancelled) ==
  [gen |-> g, key |-> key, cancelled |-> cancelled, pc |-> "inflight", hint |-> NoHint]

\* the request key changes to k: both effects are cleaned up and run again.
\* The min-amount effect of that render still sees the reason and minAmount
\* of the render; the resets of the quote effect render once more and clean
\* it up.
SetKey ==
  /\ hk.mounted
  /\ \E k \in {0} \cup HookKeys :
       /\ k # hk.key
       /\ k # 0 => hk.gen < MaxGen
       /\ LET q1 == ignoreClosure(hk.q, hk.cur)
              m1 == cancelLookups(hk.m)
              g == hk.gen + 1
          IN hk' =
               IF k = 0
               THEN [ hk EXCEPT !.key = 0, !.cur = 0, !.q = q1, !.m = m1,
                                !.data = 0, !.error = 0, !.reason = "none",
                                !.minAmount = NoHint, !.minBy = 0,
                                !.loading = FALSE ]
               ELSE [ hk EXCEPT !.key = k, !.cur = g, !.gen = g,
                                !.q = [q1 EXCEPT ![g] =
                                         [NoClosure EXCEPT !.key = k, !.pc = "fetch",
                                                           !.sent = 1]],
                                !.m = IF lookupStarts(k, hk.reason, hk.minAmount)
                                      THEN Append(m1, newLookup(g, k, TRUE))
                                      ELSE m1,
                                !.error = 0, !.reason = "none",
                                !.minAmount = NoHint, !.minBy = 0,
                                !.loading = TRUE ]
  /\ UNCHANGED <<notHk, cache>>

\* the hook unmounts: both cleanups run
Unmount ==
  /\ hk.mounted
  /\ hk.gen > 0
  /\ hk' = [ hk EXCEPT !.mounted = FALSE, !.q = ignoreClosure(hk.q, hk.cur),
                       !.m = cancelLookups(hk.m) ]
  /\ UNCHANGED <<notHk, cache>>

\* the hook after the async function of closure g, not ignored, got reply r
\* for good (cache.ts 237-277), and the min-amount effect of the next render
quoteSettled_unguarded(h, g, r) ==
  LET c == [h.q[g] EXCEPT !.pc = "done", !.got = @ + 1,
                          !.lastRetryable = r.kind = "fail" /\ r.retryable]
      h1 == [h EXCEPT !.q[g] = c, !.loading = FALSE]
  IN IF r.kind = "ok"
     THEN [ h1 EXCEPT !.data = g, !.error = 0, !.reason = "none",
                      !.minAmount = NoHint, !.minBy = 0 ]
     ELSE IF r.kind = "throw"
     THEN [ h1 EXCEPT !.data = 0, !.error = g, !.reason = "none",
                      !.minAmount = NoHint, !.minBy = 0 ]
     ELSE [ h1 EXCEPT !.data = 0, !.error = g, !.reason = r.reason,
                      !.minAmount = r.minAmount,
                      !.minBy = IF r.minAmount = NoHint THEN 0 ELSE g,
                      !.m = IF lookupStarts(c.key, r.reason, r.minAmount)
                            THEN Append(h.m, newLookup(g, c.key, FALSE))
                            ELSE h.m ]

\* a retry whenever the response is a retryable failure
quoteReply_retryAlways(h, g, r) ==
  LET c == h.q[g]
  IN IF r.kind = "fail" /\ r.retryable
     THEN [ h EXCEPT !.q[g] = [c EXCEPT !.retried = TRUE, !.pc = "delay",
                                        !.got = @ + 1, !.lastRetryable = TRUE,
                                        !.firstRetryable = (c.sent = 1) \/ @] ]
     ELSE IF c.ignore
     THEN [h EXCEPT !.q[g] = [c EXCEPT !.pc = "done", !.got = @ + 1,
                                       !.dropped = TRUE,
                                       !.lastRetryable = r.kind = "fail" /\ r.retryable]]
     ELSE quoteSettled_unguarded(h, g, r)

\* without the ignore flag
quoteReply_noIgnore(h, g, r) ==
  LET c == h.q[g]
  IN IF r.kind = "fail" /\ r.retryable /\ ~c.retried
     THEN [ h EXCEPT !.q[g] = [c EXCEPT !.retried = TRUE, !.pc = "delay",
                                        !.got = @ + 1, !.firstRetryable = TRUE,
                                        !.lastRetryable = TRUE] ]
     ELSE quoteSettled_unguarded(h, g, r)

\* a fetchOnce of closure g settles with r (cache.ts 228-277): a retryable
\* failure of the first request starts the 250 ms delay; an ignored closure
\* writes nothing
quoteReply(h, g, r) ==
  LET c == h.q[g]
  IN IF r.kind = "fail" /\ r.retryable /\ ~c.retried
     THEN [ h EXCEPT !.q[g] = [c EXCEPT !.retried = TRUE, !.pc = "delay",
                                        !.got = @ + 1, !.firstRetryable = TRUE,
                                        !.lastRetryable = TRUE] ]
     ELSE IF c.ignore
     THEN [h EXCEPT !.q[g] = [c EXCEPT !.pc = "done", !.got = @ + 1,
                                       !.dropped = TRUE,
                                       !.lastRetryable = r.kind = "fail" /\ r.retryable]]
     ELSE quoteSettled_unguarded(h, g, r)

\* POST answers a request of closure g, or its fetch throws
QuoteSettles ==
  \E g \in 1..MaxGen :
    /\ hk.q[g].pc = "fetch"
    /\ LET body == HookBody(hk.q[g].key)
       IN \E r \in HookRepliesOf[hk.q[g].key,
                                   getCachedMinAmountHint(cache, body, now).fromAmount] :
            /\ hk' = quoteReply(hk, g, r)
            /\ cache' = IF r.kind = "throw" THEN cache
                        ELSE cacheAfterGet(cache, minCacheKey(body), now)
    /\ UNCHANGED notHk

\* the 250 ms are over: the second request, unless ignored (cache.ts 233-236)
DelayEnds ==
  /\ \E g \in 1..MaxGen :
       /\ hk.q[g].pc = "delay"
       /\ hk' = IF hk.q[g].ignore
                THEN [hk EXCEPT !.q[g].pc = "done", !.q[g].dropped = TRUE]
                ELSE [hk EXCEPT !.q[g].pc = "fetch", !.q[g].sent = @ + 1]
  /\ UNCHANGED <<notHk, cache>>

\* the min-amount endpoint answers lookup i (page.tsx 235-256, cache.ts
\* 296-316): computeMinAmountHint runs on the request of the lookup; a hint
\* is written unless the lookup was cancelled
lookupReply_uncancelled(h, i, hint) ==
  LET h1 == [h EXCEPT !.m[i].pc = "done", !.m[i].hint = hint]
  IN IF hint = NoHint THEN h1
     ELSE [h1 EXCEPT !.minAmount = hint, !.minBy = h.m[i].gen]

lookupReply(h, i, hint) ==
  LET h1 == [h EXCEPT !.m[i].pc = "done", !.m[i].hint = hint]
  IN IF h.m[i].cancelled \/ hint = NoHint THEN h1
     ELSE [h1 EXCEPT !.minAmount = hint, !.minBy = h.m[i].gen]

LookupSettles ==
  /\ \E i \in DOMAIN hk.m :
       /\ hk.m[i].pc = "inflight"
       /\ \E M \in 0..MaxThreshold :
            LET res == computeMinAmountHint(cache, HookBody(hk.m[i].key), M, now)
            IN /\ hk' = lookupReply(hk, i, res[1])
               /\ cache' = res[2]
  /\ UNCHANGED notHk

\* the fetch of lookup i throws: nothing is written
LookupThrows ==
  /\ \E i \in DOMAIN hk.m :
       /\ hk.m[i].pc = "inflight"
       /\ hk' = [hk EXCEPT !.m[i].pc = "done"]
  /\ UNCHANGED <<notHk, cache>>

NextHook ==
  SetKey \/ Unmount \/ QuoteSettles \/ DelayEnds \/ LookupSettles \/ LookupThrows

SpecHook == Init /\ [][NextHook]_vars

C27_WitnessOne ==
  \E g \in 1..MaxGen :
    /\ hk.q[g].sent = 1
    /\ hk.q[g].got = 1
    /\ ~hk.q[g].firstRetryable
    /\ hk.q[g].pc = "done"
    /\ hk.error = g

\* C28: while the hook holds reason MIN_AMOUNT without a hint for its
\* request, its min-amount effect has started a lookup for that request and
\* not cancelled it; a lookup that resolved has its hint in the cache and,
\* unless cancelled, in minAmount; and every response POST can give carries a
\* hint only with reason MIN_AMOUNT.
C28_ResolverRuns ==
  /\ (hk.mounted /\ hk.reason = "MIN_AMOUNT" /\ hk.minAmount = NoHint) =>
       \E i \in DOMAIN hk.m :
         /\ hk.m[i].gen = hk.cur
         /\ hk.m[i].key = hk.key
         /\ ~hk.m[i].cancelled
  /\ \A i \in DOMAIN hk.m :
       (hk.m[i].pc = "done" /\ hk.m[i].hint # NoHint) =>
         /\ getCachedMinAmountHint(cache, HookBody(hk.m[i].key), now) = hk.m[i].hint
         /\ ~hk.m[i].cancelled =>
              /\ hk.minAmount = hk.m[i].hint
              /\ hk.minBy = hk.m[i].gen
              /\ hk.reason = "MIN_AMOUNT"
  /\ \A g \in 1..MaxGen :
       hk.q[g].pc = "fetch" =>
         \A r \in HookRepliesOf[hk.q[g].key,
                                getCachedMinAmountHint(cache, HookBody(hk.q[g].key), now).fromAmount] :
           r.minAmount # NoHint => r.reason = "MIN_AMOUNT"

\* the lookup resolved and its hint reached the hook
C28_Witness ==
  \E i \in DOMAIN hk.m :
    /\ hk.m[i].pc = "done"
    /\ ~hk.m[i].cancelled
    /\ hk.m[i].hint # NoHint
    /\ hk.m[i].key = hk.key
    /\ hk.reason = "MIN_AMOUNT"
    /\ hk.minAmount = hk.m[i].hint

\* the lookup did not resolve: reason MIN_AMOUNT without a hint
C28_WitnessUnresolved ==
  \E i \in DOMAIN hk.m :
    /\ hk.m[i].pc = "done"
    /\ ~hk.m[i].cancelled
    /\ hk.m[i].hint = NoHint
    /\ hk.reason = "MIN_AMOUNT"
    /\ hk.minAmount = NoHint

\* a later quote of the same pair fails with the cached hint attached
C28_WitnessCached ==
  /\ hk.reason = "MIN_AMOUNT"
  /\ hk.minAmount # NoHint
  /\ hk.minBy = hk.cur
  /\ \A i \in DOMAIN hk.m : hk.m[i].gen # hk.cur

\* C29 as stated: the states of the hook were written for the latest request
C29_OnlyLatestRequest ==
  hk.mounted =>
    /\ hk.data \in {0, hk.cur}
    /\ hk.error \in {0, hk.cur}
    /\ hk.minBy \in {0, hk.cur}

\* C29 amended, the states: error, reason and minAmount were written for the
\* latest request, loading tells whether its run is unfinished, and data was
\* written for the latest request once loading is false
C29_State ==
  hk.mounted =>
    /\ hk.error \in {0, hk.cur}
    /\ hk.minBy \in {0, hk.cur}
    /\ hk.reason # "none" => hk.error = hk.cur
    /\ hk.minAmount # NoHint => hk.minBy = hk.cur
    /\ hk.loading <=> (hk.cur # 0 /\ hk.q[hk.cur].pc # "done")
    /\ ~hk.loading => hk.data \in {0, hk.cur}

\* C29 amended, the steps: a response, the end of the delay or a lookup of a
\* run that was cleaned up writes none of the five states, and nothing writes
\* them after the unmount
C29_Step ==
  LET states(h) == <<h.data, h.error, h.reason, h.minAmount, h.minBy, h.loading>>
  IN /\ ~hk.mounted => states(hk') = states(hk)
     /\ \A g \in 1..MaxGen :
          (hk.q[g].ignore /\ hk'.q[g] # hk.q[g]) => states(hk') = states(hk)
     /\ \A i \in DOMAIN hk.m :
          (hk.m[i].cancelled /\ hk'.m[i] # hk.m[i]) => states(hk') = states(hk)

\* C29 amended: no response of an earlier request writes a state of the hook;
\* error, reason, minAmount and loading reflect the latest request only, data
\* may be that of an earlier request while the latest one is loading.
C29_StaleResponsesIgnored == [](C29_State) /\ [][C29_Step]_vars

\* a response of the earlier request was received and dropped while the
\* latest request is loading
C29_Witness ==
  /\ hk.mounted
  /\ hk.cur = 2
  /\ hk.q[1].ignore
  /\ hk.q[1].dropped
  /\ hk.q[1].got > 0
  /\ hk.q[2].pc = "fetch"
  /\ hk.loading

\* the delayed retry of the earlier request was not sent
C29_WitnessRetry ==
  /\ hk.q[1].ignore
  /\ hk.q[1].retried
  /\ hk.q[1].sent = 1
  /\ hk.q[1].pc = "done"
  /\ hk.q[1].dropped

\* a cancelled lookup resolved and was not written
C29_WitnessLookup ==
  \E i \in DOMAIN hk.m :
    /\ hk.m[i].cancelled
    /\ hk.m[i].pc = "done"
    /\ hk.m[i].hint # NoHint
    /\ hk.mounted
    /\ hk.minAmount = NoHint

\* the earlier quote is still returned while the latest request loads
C29_WitnessStaleData ==
  /\ hk.mounted
  /\ hk.cur = 2
  /\ hk.data = 1
  /\ hk.loading

====
